---- MODULE Spec2Model ----
(***************************************************************************)
(* A model of the TWAIN backend (src/app): the persona pipeline            *)
(* (scrape -> prompt -> LLM reply -> fence removal -> JSON parse ->        *)
(* normalisation), the ideas and message generators, and the request       *)
(* handlers that persist their results in the document store.              *)
(*                                                                         *)
(* Texts are TLA+ strings, handled as sequences of characters with Len,    *)
(* SubSeq and \o.  The TLA+ lexer has no way to write the backtick         *)
(* (U+0060) inside a string literal, so the character BT stands for it     *)
(* throughout: "~~~" is the markdown fence of three backticks.  No text    *)
(* of the model uses BT for anything else.                                 *)
(***************************************************************************)
EXTENDS Integers, Sequences, FiniteSets, TLC

(***************************************************************************)
(* Python str primitives                                                   *)
(***************************************************************************)
BT == "~"
FENCE == BT \o BT \o BT
FENCE_JSON == FENCE \o "json"

\* Body applied to the value of val, computed once: a local name for a
\* result that is used several times.
Bind(val, Body(_)) == CHOOSE y \in {Body(x) : x \in {val}} : TRUE

PyWhitespace == {" ", "\t", "\n", "\r", "\f"}

\* s[i] for a 1-based index, and "" past either end.
CharAt(s, i) == IF i >= 1 /\ i <= Len(s) THEN SubSeq(s, i, i) ELSE ""

\* s[i-1:] in Python terms: the text from the 1-based index i on.
StrFrom(s, i) == IF i > Len(s) THEN "" ELSE SubSeq(s, i, Len(s))

\* str.strip(): leading and trailing whitespace removed.
strip(text) ==
    Bind(text, LAMBDA s :
        Bind({i \in 1..Len(s) : CharAt(s, i) \notin PyWhitespace}, LAMBDA keep :
            IF keep = {} THEN ""
            ELSE SubSeq(s, CHOOSE i \in keep : \A j \in keep : i <= j,
                           CHOOSE i \in keep : \A j \in keep : i >= j)))

\* str.startswith(p)
startswith(s, p) == Len(p) <= Len(s) /\ SubSeq(s, 1, Len(p)) = p

\* str.find(sep, from): the first index >= from where sep occurs, 0 if none.
find(text, sep, from) ==
    Bind(text, LAMBDA s :
        Bind({j \in from..(Len(s) - Len(sep) + 1) :
                 SubSeq(s, j, j + Len(sep) - 1) = sep}, LAMBDA hits :
            IF hits = {} THEN 0 ELSE CHOOSE j \in hits : \A k \in hits : j <= k))

\* str.split(sep) for a non-empty sep: the pieces between the occurrences.
RECURSIVE split(_, _)
split(text, sep) ==
    Bind(text, LAMBDA s :
        Bind(find(s, sep, 1), LAMBDA j :
            IF j = 0 THEN <<s>>
            ELSE <<SubSeq(s, 1, j - 1)>> \o split(StrFrom(s, j + Len(sep)), sep)))

\* sep.join(items)
RECURSIVE join(_, _)
join(sep, items) ==
    IF items = <<>> THEN ""
    ELSE IF Len(items) = 1 THEN items[1]
    ELSE items[1] \o sep \o join(sep, Tail(items))

(***************************************************************************)
(* Python / JSON values.  Every value is a record tagged by t:             *)
(*   None/null  [t |-> "null"]          bool  [t |-> "bool", b |-> ...]    *)
(*   number     [t |-> "num", lit |-> the literal's text]                  *)
(*   str        [t |-> "str", s |-> text]                                  *)
(*   list       [t |-> "list", l |-> <<values>>]                           *)
(*   dict       [t |-> "obj", o |-> <<[k |-> key, v |-> value], ...>>]     *)
(***************************************************************************)
None == [t |-> "null"]
PyBool(b) == [t |-> "bool", b |-> b]
PyNum(lit) == [t |-> "num", lit |-> lit]
PyStr(s) == [t |-> "str", s |-> s]
PyList(l) == [t |-> "list", l |-> l]
PyDict(o) == [t |-> "obj", o |-> o]

isinstance(val, ty) == val.t = ty

\* dict.get(key, default): the value stored under key, else default.
dict_get(d, key, default) ==
    LET hits == {i \in 1..Len(d.o) : d.o[i].k = key}
    IN  IF hits = {} THEN default ELSE d.o[CHOOSE i \in hits : TRUE].v

\* d[key] = val: replaces the value of an existing key in place, else appends.
dict_set(d, key, val) ==
    IF \E i \in 1..Len(d.o) : d.o[i].k = key
    THEN PyDict([i \in 1..Len(d.o) |->
                    IF d.o[i].k = key THEN [k |-> key, v |-> val] ELSE d.o[i]])
    ELSE PyDict(Append(d.o, [k |-> key, v |-> val]))

\* A number literal is zero when its mantissa has no non-zero digit.
NumIsZero(lit) ==
    LET e == {i \in 1..Len(lit) : CharAt(lit, i) \in {"e", "E"}}
        stop == IF e = {} THEN Len(lit)
                ELSE (CHOOSE i \in e : \A j \in e : i <= j) - 1
    IN  \A i \in 1..stop : CharAt(lit, i) \in {"0", "-", "."}

\* Mutant of truthy: a dict whose values are all empty counts as empty.
truthy_by_values(val) ==
    CASE val.t = "null" -> FALSE
      [] val.t = "bool" -> val.b
      [] val.t = "num"  -> ~NumIsZero(val.lit)
      [] val.t = "str"  -> val.s /= ""
      [] val.t = "list" -> val.l /= <<>>
      [] val.t = "obj"  -> \E i \in 1..Len(val.o) : val.o[i].v.l /= <<>>

\* Python truthiness: bool(val).
truthy(val) ==
    CASE val.t = "null" -> FALSE
      [] val.t = "bool" -> val.b
      [] val.t = "num"  -> ~NumIsZero(val.lit)
      [] val.t = "str"  -> val.s /= ""
      [] val.t = "list" -> val.l /= <<>>
      [] val.t = "obj"  -> val.o /= <<>>

(***************************************************************************)
(* json.loads, as CPython's json.decoder / json.scanner compute it.  A     *)
(* parse step returns [ok |-> TRUE, v |-> value, i |-> next index] or      *)
(* [ok |-> FALSE] (JSONDecodeError).  The escapes \b and \uXXXX and the    *)
(* constants NaN / Infinity name characters and values the model's texts   *)
(* never contain; the decoder below rejects them.                          *)
(***************************************************************************)
JsonWs == {" ", "\t", "\n", "\r"}
Digits == {"0", "1", "2", "3", "4", "5", "6", "7", "8", "9"}
ControlChars == {"\t", "\n", "\r", "\f"}
ParseFail == [ok |-> FALSE]
ParseOk(v, i) == [ok |-> TRUE, v |-> v, i |-> i]

RECURSIVE SkipWs(_, _)
SkipWs(s, i) == IF CharAt(s, i) \in JsonWs THEN SkipWs(s, i + 1) ELSE i

RECURSIVE SkipDigits(_, _)
SkipDigits(s, i) == IF CharAt(s, i) \in Digits THEN SkipDigits(s, i + 1) ELSE i

\* py_scanstring with strict=True; i is the index after the opening quote.
RECURSIVE scanstring(_, _, _)
scanstring(s, i, acc) ==
    LET c == CharAt(s, i)
        e == CharAt(s, i + 1)
    IN  IF c = "" THEN ParseFail
        ELSE IF c = "\"" THEN ParseOk(acc, i + 1)
        ELSE IF c \in ControlChars THEN ParseFail
        ELSE IF c = "\\"
             THEN IF e = "\"" THEN scanstring(s, i + 2, acc \o "\"")
                  ELSE IF e = "\\" THEN scanstring(s, i + 2, acc \o "\\")
                  ELSE IF e = "/" THEN scanstring(s, i + 2, acc \o "/")
                  ELSE IF e = "n" THEN scanstring(s, i + 2, acc \o "\n")
                  ELSE IF e = "t" THEN scanstring(s, i + 2, acc \o "\t")
                  ELSE IF e = "r" THEN scanstring(s, i + 2, acc \o "\r")
                  ELSE IF e = "f" THEN scanstring(s, i + 2, acc \o "\f")
                  ELSE ParseFail
        ELSE scanstring(s, i + 1, acc \o c)

\* NUMBER_RE: (-?(?:0|[1-9]\d*))(\.\d+)?([eE][-+]?\d+)?
match_number(s, i) ==
    LET j0 == IF CharAt(s, i) = "-" THEN i + 1 ELSE i
        j1 == IF CharAt(s, j0) = "0" THEN j0 + 1
              ELSE IF CharAt(s, j0) \in Digits THEN SkipDigits(s, j0)
              ELSE 0
        j2 == IF CharAt(s, j1) = "." /\ CharAt(s, j1 + 1) \in Digits
              THEN SkipDigits(s, j1 + 1) ELSE j1
        k  == IF CharAt(s, j2 + 1) \in {"+", "-"} THEN j2 + 2 ELSE j2 + 1
        j3 == IF CharAt(s, j2) \in {"e", "E"} /\ CharAt(s, k) \in Digits
              THEN SkipDigits(s, k) ELSE j2
    IN  IF j1 = 0 THEN ParseFail ELSE ParseOk(PyNum(SubSeq(s, i, j3 - 1)), j3)

HasAt(s, i, word) ==
    i + Len(word) - 1 <= Len(s) /\ SubSeq(s, i, i + Len(word) - 1) = word

RECURSIVE scan_once(_, _)
RECURSIVE JSONArray(_, _, _)
RECURSIVE JSONObject(_, _, _)

\* json.scanner._scan_once: the value that starts at index i.
scan_once(s, i) ==
    LET c == CharAt(s, i)
    IN  IF c = "" THEN ParseFail
        ELSE IF c = "\"" THEN
            Bind(scanstring(s, i + 1, ""), LAMBDA r :
                IF r.ok THEN ParseOk(PyStr(r.v), r.i) ELSE ParseFail)
        ELSE IF c = "{" THEN
            Bind(SkipWs(s, i + 1), LAMBDA j :
                IF CharAt(s, j) = "}" THEN ParseOk(PyDict(<<>>), j + 1)
                ELSE IF CharAt(s, j) = "\"" THEN JSONObject(s, j + 1, PyDict(<<>>))
                ELSE ParseFail)
        ELSE IF c = "[" THEN
            Bind(SkipWs(s, i + 1), LAMBDA j :
                IF CharAt(s, j) = "]" THEN ParseOk(PyList(<<>>), j + 1)
                ELSE JSONArray(s, j, <<>>))
        ELSE IF HasAt(s, i, "null") THEN ParseOk(None, i + 4)
        ELSE IF HasAt(s, i, "true") THEN ParseOk(PyBool(TRUE), i + 4)
        ELSE IF HasAt(s, i, "false") THEN ParseOk(PyBool(FALSE), i + 5)
        ELSE match_number(s, i)

\* json.decoder.JSONArray's loop; i is the index where the next element starts.
JSONArray(s, i, acc) ==
    Bind(scan_once(s, i), LAMBDA r :
        IF ~r.ok THEN ParseFail
        ELSE Bind(<<SkipWs(s, r.i), Append(acc, r.v)>>, LAMBDA at :
            LET j == at[1]
                values == at[2]
            IN  IF CharAt(s, j) = "]" THEN ParseOk(PyList(values), j + 1)
                ELSE IF CharAt(s, j) = ","
                THEN Bind(SkipWs(s, j + 1), LAMBDA n : JSONArray(s, n, values))
                ELSE ParseFail))

\* json.decoder.JSONObject's loop; i is the index after a key's opening quote.
\* dict(pairs): a repeated key keeps its first position and its last value.
JSONObject(s, i, acc) ==
    Bind(scanstring(s, i, ""), LAMBDA key :
        IF ~key.ok THEN ParseFail
        ELSE Bind(SkipWs(s, key.i), LAMBDA c :
            IF CharAt(s, c) /= ":" THEN ParseFail
            ELSE Bind(SkipWs(s, c + 1), LAMBDA start :
                 Bind(scan_once(s, start), LAMBDA r :
                IF ~r.ok THEN ParseFail
                ELSE Bind(<<SkipWs(s, r.i), dict_set(acc, key.v, r.v)>>, LAMBDA at :
                    LET j == at[1]
                        pairs == at[2]
                    IN  IF CharAt(s, j) = "}" THEN ParseOk(pairs, j + 1)
                        ELSE IF CharAt(s, j) = ","
                        THEN Bind(SkipWs(s, j + 1), LAMBDA n :
                                 IF CharAt(s, n) = "\"" THEN JSONObject(s, n + 1, pairs)
                                 ELSE ParseFail)
                        ELSE ParseFail)))))

\* json.loads(s): one value between optional whitespace, nothing after it.
json_loads(text) ==
    Bind(text, LAMBDA s :
        Bind(scan_once(s, SkipWs(s, 1)), LAMBDA r :
            IF r.ok /\ SkipWs(s, r.i) = Len(s) + 1 THEN r ELSE ParseFail))

\* Mutant of strip_code_fence: the bare fence is tested before the json fence.
strip_code_fence_bare_first(response_text) ==
    Bind(response_text, LAMBDA text :
        IF startswith(text, FENCE)
        THEN strip(split(split(text, FENCE)[2], FENCE)[1])
        ELSE IF startswith(text, FENCE_JSON)
        THEN strip(split(split(text, FENCE_JSON)[2], FENCE)[1])
        ELSE text)

\* The fence removal every controller applies to the stripped reply text.
\* split(...)[1] and [0] of the source are the 1-based [2] and [1] here.
strip_code_fence(response_text) ==
    Bind(response_text, LAMBDA text :
        IF startswith(text, FENCE_JSON)
        THEN strip(split(split(text, FENCE_JSON)[2], FENCE)[1])
        ELSE IF startswith(text, FENCE)
        THEN strip(split(split(text, FENCE)[2], FENCE)[1])
        ELSE text)

(***************************************************************************)
(* Exceptions.  An operation that may raise returns Ret(v) or Raise(name). *)
(***************************************************************************)
Ret(v) == [exc |-> "", v |-> v]
Raise(name) == [exc |-> name]
raised(r) == r.exc /= ""

(***************************************************************************)
(* app/models: the pydantic (v2) models and their validation               *)
(***************************************************************************)
ListFields == <<"pain_points", "social_proof", "cost_of_inaction",
                "solutions", "objections", "competitive_advantages">>
StrListFields == <<"pain_points", "cost_of_inaction", "solutions",
                   "objections", "competitive_advantages">>

\* Optional[str]: a str or None.
IsOptionalStr(val) == val.t \in {"str", "null"}

\* List[str]: a list whose every element is a str (no coercion of numbers).
IsStrList(val) == val.t = "list" /\ \A i \in 1..Len(val.l) : val.l[i].t = "str"

\* SocialProof(statement=..., source=...)
SocialProof(statement, source) ==
    IF statement.t = "str" /\ IsOptionalStr(source)
    THEN Ret([statement |-> statement.s, source |-> source])
    ELSE Raise("ValidationError")

\* Persona(id=..., name='', title=..., ..., competitive_advantages=...): the
\* arguments are values already computed; social_proof is a sequence of
\* SocialProof records.
Persona(id, title, company, pain_points, social_proof, cost_of_inaction, solutions, objections, competitive_advantages) ==
    IF /\ IsOptionalStr(title) /\ IsOptionalStr(company)
       /\ IsStrList(pain_points) /\ IsStrList(cost_of_inaction)
       /\ IsStrList(solutions) /\ IsStrList(objections)
       /\ IsStrList(competitive_advantages)
    THEN Ret([id |-> id, name |-> PyStr(""), title |-> title,
              company |-> company, email |-> PyStr(""),
              pain_points |-> pain_points.l,
              social_proof |-> social_proof,
              cost_of_inaction |-> cost_of_inaction.l,
              solutions |-> solutions.l,
              objections |-> objections.l,
              competitive_advantages |-> competitive_advantages.l])
    ELSE Raise("ValidationError")

(***************************************************************************)
(* app/controllers/persona_controller.py: the normalisation helpers        *)
(***************************************************************************)
DEFAULT_MESSAGE == "Unable to analyze website"

\* The placeholder persona_json of the except branch.
default_persona_json ==
    PyDict(<<[k |-> "title", v |-> PyStr("Unknown")],
             [k |-> "company", v |-> PyStr("Unknown")],
             [k |-> "pain_points", v |-> PyList(<<PyStr(DEFAULT_MESSAGE)>>)],
             [k |-> "social_proof", v |-> PyList(<<>>)],
             [k |-> "cost_of_inaction", v |-> PyList(<<PyStr(DEFAULT_MESSAGE)>>)],
             [k |-> "solutions", v |-> PyList(<<PyStr(DEFAULT_MESSAGE)>>)],
             [k |-> "objections", v |-> PyList(<<PyStr(DEFAULT_MESSAGE)>>)],
             [k |-> "competitive_advantages",
              v |-> PyList(<<PyStr(DEFAULT_MESSAGE)>>)]>>)

\* Mutant of split_commas: the pieces are stripped and the empty ones kept.
split_commas_keep_empty(text) ==
    LET pieces == split(text, ",")
    IN  [i \in 1..Len(pieces) |-> PyStr(strip(pieces[i]))]

\* [v.strip() for v in val.split(',') if v.strip()]
split_commas(text) ==
    LET pieces == split(text, ",")
        stripped == [i \in 1..Len(pieces) |-> PyStr(strip(pieces[i]))]
    IN  SelectSeq(stripped, LAMBDA v : v.s /= "")

\* list(d) of a dict: its keys.
dict_keys(d) == [i \in 1..Len(d.o) |-> PyStr(d.o[i].k)]

ensure_list(val) ==
    IF val.t = "null" THEN Ret(PyList(<<>>))
    ELSE IF isinstance(val, "list") THEN Ret(val)
    ELSE IF isinstance(val, "str") THEN Ret(PyList(split_commas(val.s)))
    ELSE IF ~truthy(val) THEN Ret(PyList(<<>>))
    ELSE IF val.t = "obj" THEN Ret(PyList(dict_keys(val)))
    ELSE Raise("TypeError")

\* Mutant of patch_fields: a null list field is given the placeholder list.
RECURSIVE patch_fields_placeholder(_, _)
patch_fields_placeholder(persona_json, fields) ==
    IF fields = <<>> THEN persona_json
    ELSE patch_fields_placeholder(
            IF dict_get(persona_json, Head(fields), None).t = "null"
            THEN dict_set(persona_json, Head(fields),
                          PyList(<<PyStr(DEFAULT_MESSAGE)>>))
            ELSE persona_json,
            Tail(fields))

\* The loop that patches null list fields; persona_json.get needs a dict.
RECURSIVE patch_fields(_, _)
patch_fields(persona_json, fields) ==
    IF fields = <<>> THEN persona_json
    ELSE patch_fields(
            IF dict_get(persona_json, Head(fields), None).t = "null"
            THEN dict_set(persona_json, Head(fields), PyList(<<>>))
            ELSE persona_json,
            Tail(fields))

patch_null_lists(persona_json) ==
    IF persona_json.t /= "obj" THEN Raise("AttributeError")
    ELSE Ret(patch_fields(persona_json, ListFields))

\* One entry of the social-proof loop: the record it appends, a raise, or
\* nothing (an entry that is neither a dict nor a str is skipped).
proof_record(proof) ==
    IF isinstance(proof, "obj")
    THEN SocialProof(dict_get(proof, "statement", PyStr("")),
                     dict_get(proof, "source", None))
    ELSE SocialProof(proof, None)

\* Mutant of process_social_proof: only the dict entries are converted.
process_social_proof_dicts_only(proofs) ==
    IF ~truthy(proofs) \/ ~isinstance(proofs, "list") THEN Ret(<<>>)
    ELSE LET kept == SelectSeq(proofs.l, LAMBDA p : p.t = "obj")
             recs == [i \in 1..Len(kept) |-> proof_record(kept[i])]
         IN  IF \E i \in 1..Len(recs) : raised(recs[i])
             THEN Raise("ValidationError")
             ELSE Ret([i \in 1..Len(recs) |-> recs[i].v])

process_social_proof(proofs) ==
    IF ~truthy(proofs) \/ ~isinstance(proofs, "list") THEN Ret(<<>>)
    ELSE LET kept == SelectSeq(proofs.l, LAMBDA p : p.t \in {"obj", "str"})
             recs == [i \in 1..Len(kept) |-> proof_record(kept[i])]
         IN  IF \E i \in 1..Len(recs) : raised(recs[i])
             THEN Raise("ValidationError")
             ELSE Ret([i \in 1..Len(recs) |-> recs[i].v])

extract_string(val) ==
    IF isinstance(val, "list") /\ truthy(val)
    THEN IF ~truthy(val.l[1]) THEN Ret(None)
         ELSE IF val.l[1].t = "str" THEN Ret(PyStr(strip(val.l[1].s)))
         ELSE Raise("AttributeError")
    ELSE IF isinstance(val, "str")
    THEN Ret(IF strip(val.s) = "" THEN None ELSE PyStr(strip(val.s)))
    ELSE Ret(None)

\* The first exception among the results, in evaluation order, else "".
RECURSIVE first_exc(_)
first_exc(results) ==
    IF results = <<>> THEN ""
    ELSE IF raised(Head(results)) THEN Head(results).exc
    ELSE first_exc(Tail(results))

\* Lines 123-181 of persona_scraper: from persona_json to the Persona.
build_persona(persona_json, id) ==
    Bind(patch_null_lists(persona_json), LAMBDA patched :
        IF raised(patched) THEN patched
        ELSE Bind(<<extract_string(dict_get(patched.v, "title", None)),
                    extract_string(dict_get(patched.v, "company", None)),
                    ensure_list(dict_get(patched.v, "pain_points", None)),
                    process_social_proof(dict_get(patched.v, "social_proof", None)),
                    ensure_list(dict_get(patched.v, "cost_of_inaction", None)),
                    ensure_list(dict_get(patched.v, "solutions", None)),
                    ensure_list(dict_get(patched.v, "objections", None)),
                    ensure_list(dict_get(patched.v, "competitive_advantages", None))>>,
                  LAMBDA args :
                 IF first_exc(args) /= "" THEN Raise(first_exc(args))
                 ELSE Persona(id, args[1].v, args[2].v, args[3].v, args[4].v,
                              args[5].v, args[6].v, args[7].v, args[8].v)))

(***************************************************************************)
(* The LLM call.  Its outcome is an input: it raises, or it returns a      *)
(* reply whose .text is the given text.                                    *)
(***************************************************************************)
LLMRaises == [raises |-> TRUE, text |-> ""]
LLMReply(text) == [raises |-> FALSE, text |-> text]

\* Mutant of parse_persona_reply: the except branch yields an empty dict.
parse_persona_reply_empty(llm) ==
    IF llm.raises THEN PyDict(<<>>)
    ELSE Bind(json_loads(strip_code_fence(strip(llm.text))), LAMBDA r :
             IF r.ok THEN r.v ELSE PyDict(<<>>))

\* Lines 90-122: the try block that yields persona_json.
parse_persona_reply(llm) ==
    IF llm.raises THEN default_persona_json
    ELSE Bind(json_loads(strip_code_fence(strip(llm.text))), LAMBDA r :
             IF r.ok THEN r.v ELSE default_persona_json)

\* persona_scraper after the scrape: the LLM outcome to the Persona.
persona_from_reply(llm, id) == build_persona(parse_persona_reply(llm), id)

(***************************************************************************)
(* app/models/sequence_model.py: IdeasOutput, MessageContent, MessageOutput*)
(***************************************************************************)
\* IdeasOutput(**ideas_json): ** needs a mapping; 'ideas' is a required List[str].
IdeasOutput(ideas_json) ==
    IF ideas_json.t /= "obj" THEN Raise("TypeError")
    ELSE LET ideas == dict_get(ideas_json, "ideas", [t |-> "missing"])
         IN  IF IsStrList(ideas)
             THEN Ret([ideas |-> [i \in 1..Len(ideas.l) |-> ideas.l[i].s]])
             ELSE Raise("ValidationError")

\* MessageContent: subject Optional[str] = None, body: str (required).
IsMessageContent(item) ==
    /\ item.t = "obj"
    /\ dict_get(item, "body", None).t = "str"
    /\ IsOptionalStr(dict_get(item, "subject", None))

MessageContent(item) ==
    [subject |-> dict_get(item, "subject", None), body |-> dict_get(item, "body", None).s]

\* Mutant of MessageOutput: the entries that fit MessageContent are kept.
MessageOutput_valid_subset(messages_json) ==
    IF messages_json.t /= "obj" THEN Raise("TypeError")
    ELSE LET messages == dict_get(messages_json, "messages", [t |-> "missing"])
         IN  IF messages.t = "list"
             THEN LET valid == SelectSeq(messages.l, IsMessageContent)
                  IN  Ret([messages |-> [i \in 1..Len(valid) |-> MessageContent(valid[i])]])
             ELSE Raise("ValidationError")

\* MessageOutput(**messages_json): 'messages' is a required List[MessageContent].
MessageOutput(messages_json) ==
    IF messages_json.t /= "obj" THEN Raise("TypeError")
    ELSE LET messages == dict_get(messages_json, "messages", [t |-> "missing"])
         IN  IF messages.t = "list"
                /\ \A i \in 1..Len(messages.l) : IsMessageContent(messages.l[i])
             THEN Ret([messages |->
                          [i \in 1..Len(messages.l) |-> MessageContent(messages.l[i])]])
             ELSE Raise("ValidationError")

(***************************************************************************)
(* app/utils/prompts.py.  A prompt is the template with its fields filled  *)
(* in; the template's fixed instructions are abbreviated to their labels.  *)
(***************************************************************************)
\* x or 'Not specified' for an Optional[str] field.
or_not_specified(val) == IF truthy(val) THEN val.s ELSE "Not specified"

strs(list) == [i \in 1..Len(list) |-> list[i].s]

\* str(x) of an Optional[str] inside an f-string.
fstr(val) == IF val.t = "null" THEN "None" ELSE val.s

create_persona_prompt(web_content, description) ==
    PyStr("Content to Analyze:\n" \o web_content
          \o "\nAdditional Context:\n" \o description)

create_idea_generation_prompt(num_ideas, persona_data) ==
    PyStr("generate " \o num_ideas \o " ideas"
          \o "\n- Title: " \o or_not_specified(persona_data.title)
          \o "\n- Company: " \o or_not_specified(persona_data.company)
          \o "\n- Pain Points: " \o join(", ", strs(persona_data.pain_points))
          \o "\n- Solutions: " \o join(", ", strs(persona_data.solutions))
          \o "\n- Competitive Advantages: "
          \o join(", ", strs(persona_data.competitive_advantages))
          \o "\n- Social Proof: "
          \o join(", ", [i \in 1..Len(persona_data.social_proof) |->
                   "\"" \o persona_data.social_proof[i].statement \o "\" from "
                   \o fstr(persona_data.social_proof[i].source)]))

create_email_content_prompt(num_messages, persona_data) ==
    PyStr("generate " \o num_messages \o " email messages"
          \o "\n- Title: " \o or_not_specified(persona_data.title)
          \o "\n- Company: " \o or_not_specified(persona_data.company)
          \o "\n- Pain Points: " \o join(", ", strs(persona_data.pain_points))
          \o "\n- Solutions: " \o join(", ", strs(persona_data.solutions))
          \o "\n- Social Proof: "
          \o join(", ", [i \in 1..Len(persona_data.social_proof) |->
                   "\"" \o persona_data.social_proof[i].statement \o "\""]))

\* The function builds linkedin_generation_prompt and ends without a return
\* statement: its value is None.
create_linked_content_prompt(num_messages, persona_data) == None

(***************************************************************************)
(* app/controllers: generate_ideas, generate_email_content,                *)
(* generate_linkedin_content.  Everything after the prompt is inside       *)
(* try / except Exception, whose handler returns the empty output.         *)
(***************************************************************************)
\* model.generate_content(prompt): the outcome is the environment's, except
\* that the client library refuses empty contents (a prompt of None) by raising.
generate_content(prompt, llm) == IF prompt = None THEN LLMRaises ELSE llm

\* The try block shared by the generators: reply text to parsed JSON.
parse_reply(llm) ==
    IF llm.raises THEN Raise("LLMError")
    ELSE Bind(json_loads(strip_code_fence(strip(llm.text))), LAMBDA r :
             IF r.ok THEN Ret(r.v) ELSE Raise("JSONDecodeError"))

\* Mutant of generate_ideas: the output model is built after the try block.
generate_ideas_unguarded(persona_data, llm) ==
    LET prompt == create_idea_generation_prompt("3", persona_data)
    IN  Bind(parse_reply(generate_content(prompt, llm)), LAMBDA parsed :
            IF raised(parsed) THEN Ret([ideas |-> <<>>]) ELSE IdeasOutput(parsed.v))

generate_ideas(persona_data, llm) ==
    LET prompt == create_idea_generation_prompt("3", persona_data)
    IN  Bind(parse_reply(generate_content(prompt, llm)), LAMBDA parsed :
        Bind(IF raised(parsed) THEN parsed ELSE IdeasOutput(parsed.v), LAMBDA out :
            IF raised(out) THEN Ret([ideas |-> <<>>]) ELSE out))

generate_email_content(persona_data, llm) ==
    LET prompt == create_email_content_prompt("3", persona_data)
    IN  Bind(parse_reply(generate_content(prompt, llm)), LAMBDA parsed :
        Bind(IF raised(parsed) THEN parsed ELSE MessageOutput(parsed.v), LAMBDA out :
            IF raised(out) THEN Ret([messages |-> <<>>]) ELSE out))

generate_linkedin_content(persona_data, llm) ==
    LET prompt == create_linked_content_prompt("3", persona_data)
    IN  Bind(parse_reply(generate_content(prompt, llm)), LAMBDA parsed :
        Bind(IF raised(parsed) THEN parsed ELSE MessageOutput(parsed.v), LAMBDA out :
            IF raised(out) THEN Ret([messages |-> <<>>]) ELSE out))

(***************************************************************************)
(* persona_scraper, lines 42-80: the scrape.  A page is a forest of nodes; *)
(* a text node is Text(s), an element is El(tag, kids).                    *)
(***************************************************************************)
Text(s) == [tag |-> "#text", s |-> s, kids |-> <<>>]
El(tag, kids) == [tag |-> tag, s |-> "", kids |-> kids]

RECURSIVE concat_all(_)
concat_all(texts) ==
    IF texts = <<>> THEN "" ELSE Head(texts) \o concat_all(Tail(texts))

RECURSIVE flatten(_)
flatten(lists) ==
    IF lists = <<>> THEN <<>> ELSE Head(lists) \o flatten(Tail(lists))

\* tag.get_text(strip=True): the stripped, non-empty strings below the tag,
\* joined without a separator.
RECURSIVE get_text(_)
get_text(node) ==
    IF node.tag = "#text" THEN strip(node.s)
    ELSE concat_all([i \in 1..Len(node.kids) |-> get_text(node.kids[i])])

\* The elements of a forest in document order.
RECURSIVE elements(_)
elements(forest) ==
    flatten([i \in 1..Len(forest) |->
        IF forest[i].tag = "#text" THEN <<>>
        ELSE <<forest[i]>> \o elements(forest[i].kids)])

\* find_all(names): the descendants with one of the tag names.
find_all(forest, names) == SelectSeq(elements(forest), LAMBDA n : n.tag \in names)

texts_of(nodes) == [i \in 1..Len(nodes) |-> get_text(nodes[i])]
non_empty(texts) == SelectSeq(texts, LAMBDA t : t /= "")

\* Mutant of scrape_content: the containers are not looked at.
scrape_content_whole_page(soup) ==
    join("\n", non_empty(texts_of(find_all(soup, {"h1", "h2", "h3"}))
                         \o texts_of(find_all(soup, {"p"}))
                         \o texts_of(find_all(soup, {"li"}))))

\* Lines 50-72: content_tags, then web_content.
scrape_content(soup) ==
    LET main_content == find_all(soup, {"main", "article", "section"})
        first == flatten([i \in 1..Len(main_content) |->
                    non_empty(texts_of(find_all(main_content[i].kids,
                                                {"h1", "h2", "h3", "p", "li"})))])
        second == texts_of(find_all(soup, {"h1", "h2", "h3"}))
                  \o texts_of(find_all(soup, {"p"}))
                  \o texts_of(find_all(soup, {"li"}))
        content_tags == IF first /= <<>> THEN first ELSE second
    IN  join("\n", non_empty(content_tags))

\* The outcome of the fetch is an input: requests.get or raise_for_status or
\* the parse raises (ok = FALSE), or the page is parsed into soup.
FetchFails == [ok |-> FALSE, soup |-> <<>>]
FetchOk(soup) == [ok |-> TRUE, soup |-> soup]

\* Mutant of scrape: the except branch keeps the error text as content.
scrape_error_text(fetch) ==
    IF fetch.ok THEN scrape_content(fetch.soup) ELSE "Error scraping"

\* Lines 42-80: web_content after the try / except.
scrape(fetch) == IF fetch.ok THEN scrape_content(fetch.soup) ELSE ""

(***************************************************************************)
(* Inputs.  json_dumps writes a value as JSON text, the way an LLM that    *)
(* follows the prompt would; the replies of the model are such texts and   *)
(* the literal texts listed below.                                         *)
(***************************************************************************)
MaxStrLen == 3

escape_char(c) ==
    CASE c = "\"" -> "\\\""
      [] c = "\\" -> "\\\\"
      [] c = "\n" -> "\\n"
      [] c = "\t" -> "\\t"
      [] c = "\r" -> "\\r"
      [] c = "\f" -> "\\f"
      [] OTHER -> c

quote(text) ==
    "\"" \o concat_all([i \in 1..Len(text) |-> escape_char(CharAt(text, i))]) \o "\""

RECURSIVE json_dumps(_)
json_dumps(val) ==
    CASE val.t = "null" -> "null"
      [] val.t = "bool" -> (IF val.b THEN "true" ELSE "false")
      [] val.t = "num"  -> val.lit
      [] val.t = "str"  -> quote(val.s)
      [] val.t = "list" ->
            "[" \o join(", ", [i \in 1..Len(val.l) |-> json_dumps(val.l[i])]) \o "]"
      [] val.t = "obj"  ->
            "{" \o join(", ", [i \in 1..Len(val.o) |->
                        quote(val.o[i].k) \o ": " \o json_dumps(val.o[i].v)]) \o "}"

\* All texts over an alphabet up to a length.
RECURSIVE TextsUpTo(_, _)
TextsUpTo(alphabet, n) ==
    IF n = 0 THEN {""}
    ELSE LET shorter == TextsUpTo(alphabet, n - 1)
         IN  shorter \cup {t \o c : t \in shorter, c \in alphabet}

Obj1(k1, v1) == PyDict(<<[k |-> k1, v |-> v1]>>)
Obj2(k1, v1, k2, v2) == PyDict(<<[k |-> k1, v |-> v1], [k |-> k2, v |-> v2]>>)

\* Replies that are not JSON at all (after fence removal).
NotJsonTexts ==
    <<"", "I cannot help with that.", "{\"title\": \"CTO\"", "{'title': 'CTO'}",
      "Here is the persona: {\"title\": \"CTO\"}", "[1, 2,]",
      FENCE_JSON \o "\nnot json\n" \o FENCE, FENCE \o FENCE,
      "{\"title\": \"CTO\"} " \o FENCE>>

\* Values that are valid JSON and not a JSON object.
NonObjectValues ==
    <<PyList(<<>>), PyList(<<PyNum("1"), PyNum("2")>>), PyStr("a persona"),
      PyNum("5"), PyNum("0"), None, PyBool(TRUE),
      PyList(<<Obj1("title", PyStr("CTO"))>>)>>

\* Values a reply may give a string-list field, besides comma texts.
ListFieldValues ==
    <<None, PyList(<<>>), PyList(<<PyStr("a")>>),
      PyList(<<PyStr(" a "), PyStr(""), PyStr("b,c")>>),
      PyList(<<PyNum("5")>>), PyList(<<None>>), PyList(<<PyList(<<>>)>>),
      PyNum("0"), PyNum("5"), PyBool(FALSE), PyBool(TRUE),
      PyDict(<<>>), Obj1("k", PyNum("1"))>>

\* Values a reply may give social_proof.
SocialProofValues ==
    <<None, PyList(<<>>), PyStr("a, b"), PyNum("5"), Obj1("statement", PyStr("s")),
      PyList(<<PyStr("s1")>>),
      PyList(<<PyStr("s1"), PyStr("s2")>>),
      PyList(<<Obj2("statement", PyStr("t1"), "source", PyStr("q1"))>>),
      PyList(<<Obj1("statement", PyStr("t1"))>>),
      PyList(<<Obj2("statement", PyStr("t1"), "source", None)>>),
      PyList(<<Obj2("source", PyStr("q1"), "statement", PyStr("t1")),
               PyStr("s1"),
               Obj1("statement", PyStr("t2"))>>),
      PyList(<<PyStr("s1"), Obj2("statement", PyStr("t1"), "source", PyStr("q1")),
               PyStr("s2")>>),
      PyList(<<Obj1("source", PyStr("q1"))>>),
      PyList(<<PyDict(<<>>), PyStr("")>>),
      PyList(<<Obj1("statement", None)>>),
      PyList(<<Obj1("statement", PyNum("5"))>>),
      PyList(<<Obj2("statement", PyStr("t1"), "source", PyNum("5"))>>),
      PyList(<<PyStr("s1"), PyNum("5"), Obj1("statement", PyStr("t1"))>>),
      PyList(<<None, PyList(<<PyStr("s1")>>)>>)>>

\* Values a reply may give title or company.
TitleValues ==
    <<None, PyStr("CTO"), PyStr("  CTO "), PyStr(""), PyStr("  "),
      PyList(<<>>), PyList(<<PyStr(" CTO "), PyStr("CEO")>>), PyList(<<PyStr("")>>),
      PyList(<<PyStr("  ")>>), PyList(<<None>>), PyList(<<PyNum("5")>>),
      PyList(<<PyNum("0")>>), PyNum("5"), Obj1("k", PyStr("v"))>>

AllStrFields == {StrListFields[i] : i \in 1..Len(StrListFields)}
AllListFields == {ListFields[i] : i \in 1..Len(ListFields)}

\* The characters of the comma-separated texts.
CommaAlphabet == {"a", ",", " ", "\n"}
CommaTexts == TextsUpTo(CommaAlphabet, MaxStrLen)

(***************************************************************************)
(* State.                                                                  *)
(*   h_pc, h_in, h_out: one call of a controller function on an input      *)
(*   chosen at the start: "ready" before the call, "done" after it.        *)
(***************************************************************************)
VARIABLES h_pc, h_in, h_out

(***************************************************************************)
(*   phase     the application: "new" before the startup event, "serving"  *)
(*             after it, "failed" when it raised, "stopped" after the      *)
(*             shutdown event, "nolifespan" when the server runs the app   *)
(*             without lifespan events                                     *)
(*   client, database   the globals of app/database/__init__.py            *)
(*   settings  the attributes the settings object has                      *)
(*   exc_str   whether str() of an HTTPException shows its detail          *)
(*             (Starlette defines __str__ only in its later versions)      *)
(*   store     the document store: per collection, the documents in order  *)
(*   writes    the write operations issued to the store, in order          *)
(*   slots     the requests the server handles at a time                   *)
(*   req       per slot, the request being handled and its handler's state *)
(*   loop      the slot whose handler holds the event loop, 0 when idle    *)
(*   uuids     how many uuid4() values have been drawn                     *)
(*   received  how many requests have been received                        *)
(***************************************************************************)
VARIABLES phase, client, database, settings, exc_str, store, writes, slots,
          req, loop, uuids, received

hvars == <<h_pc, h_in, h_out>>
svars == <<phase, client, database, settings, exc_str, store, writes, slots,
           req, loop, uuids, received>>
vars == <<h_pc, h_in, h_out, phase, client, database, settings, exc_str, store,
          writes, slots, req, loop, uuids, received>>

NoOut == Raise("not called")
UUID1 == "uuid-1"

AllSlots == {1, 2}

\* app/config/config.py: the fields class Settings defines.
SettingsClass == {"GEMINI_API_KEY"}
NoValue == [t |-> "none"]
NoResponse == [status |-> 0, detail |-> "", body |-> NoValue]
EmptyStore == [persona |-> <<>>, ideas |-> <<>>, campaign |-> <<>>, test |-> <<>>]
IdleRequest ==
    [pc |-> "idle", ep |-> "", url |-> "", description |-> "",
     persona_in |-> NoValue, channel |-> "", fetch_ok |-> FALSE,
     web_content |-> "", gets |-> 0, prompts |-> <<>>, result |-> NoOut,
     doc |-> NoValue, inserts |-> 0, db_failed |-> FALSE, cause |-> "",
     resp |-> NoResponse]

\* The service before anything has run, with one request slot.
ServiceNew ==
    /\ client = "none"
    /\ database = "none"
    /\ store = EmptyStore
    /\ writes = <<>>
    /\ req = [r \in AllSlots |-> IdleRequest]
    /\ loop = 0
    /\ uuids = 0
    /\ received = 0

\* The function harnesses leave the service as it is before startup.
ServiceUnused ==
    /\ ServiceNew
    /\ phase = "new"
    /\ settings = SettingsClass
    /\ exc_str = TRUE
    /\ slots = {1}

HarnessUnused == h_pc = "unused" /\ h_in = NoValue /\ h_out = NoOut

(***************************************************************************)
(* SpecScraper: persona_scraper on one LLM outcome.  The input records the *)
(* outcome (llm), what kind of reply it is, and for a JSON reply the value *)
(* (json) the text was written from.                                       *)
(***************************************************************************)
ScraperInput(kind, llm, json) == [kind |-> kind, llm |-> llm, json |-> json]
JsonInput(kind, val) == ScraperInput(kind, LLMReply(json_dumps(val)), val)
FencedInput(kind, val) ==
    ScraperInput(kind, LLMReply(FENCE_JSON \o "\n" \o json_dumps(val) \o "\n" \o FENCE), val)

InitScraper ==
    /\ ServiceUnused
    /\ h_pc = "ready"
    /\ h_out = NoOut
    /\ \/ h_in = ScraperInput("raise", LLMRaises, None)
       \/ \E i \in 1..Len(NotJsonTexts) :
            h_in = ScraperInput("notjson", LLMReply(NotJsonTexts[i]), None)
       \/ \E i \in 1..Len(NonObjectValues) :
            h_in \in {JsonInput("nonobject", NonObjectValues[i]),
                      FencedInput("nonobject", NonObjectValues[i])}
       \/ h_in \in {JsonInput("object", PyDict(<<>>)), FencedInput("object", PyDict(<<>>))}
       \/ \E f \in AllStrFields, i \in 1..Len(ListFieldValues) :
            h_in \in {JsonInput("object", Obj1(f, ListFieldValues[i])),
                      FencedInput("object", Obj2("title", PyStr("CTO"), f, ListFieldValues[i]))}
       \/ \E f \in AllStrFields, text \in CommaTexts :
            h_in = JsonInput("object", Obj1(f, PyStr(text)))
       \/ \E i \in 1..Len(SocialProofValues) :
            h_in \in {JsonInput("object", Obj1("social_proof", SocialProofValues[i])),
                      FencedInput("object", Obj2("social_proof", SocialProofValues[i],
                                                 "pain_points", None))}
       \/ \E f \in {"title", "company"}, i \in 1..Len(TitleValues) :
            h_in = JsonInput("object", Obj1(f, TitleValues[i]))

\* persona_scraper(url, description) from the LLM call on.
CallPersonaScraper ==
    /\ h_pc = "ready"
    /\ h_in.kind \in {"raise", "notjson", "nonobject", "object"}
    /\ h_out' = persona_from_reply(h_in.llm, UUID1)
    /\ h_pc' = "done"
    /\ UNCHANGED <<h_in, svars>>

NextScraper == CallPersonaScraper

SpecScraper == InitScraper /\ [][NextScraper]_vars

ScraperDone == h_pc = "done" /\ h_in.kind \in {"raise", "notjson", "nonobject", "object"}


(***************************************************************************)
(* Claims about persona_scraper (checked under SpecScraper)                *)
(***************************************************************************)
HasKey(d, key) == \E i \in 1..Len(d.o) : d.o[i].k = key

PlaceholderList == <<PyStr(DEFAULT_MESSAGE)>>

\* C1: for every LLM reply text, including text that is not JSON and valid
\* JSON that is not an object, persona_scraper returns a Persona and does
\* not raise.
C1_ScraperNeverRaises == ScraperDone => ~raised(h_out)

\* C4: when the LLM call raises or the reply text, after fence removal, is
\* not JSON, persona_scraper returns the placeholder persona: title and
\* company 'Unknown', social_proof empty, and each string-list field equal
\* to ['Unable to analyze website'].
C4_PlaceholderOnFailure ==
    (ScraperDone /\ h_in.kind \in {"raise", "notjson"}) =>
        /\ ~raised(h_out)
        /\ h_out.v.title = PyStr("Unknown")
        /\ h_out.v.company = PyStr("Unknown")
        /\ h_out.v.social_proof = <<>>
        /\ \A f \in AllStrFields : h_out.v[f] = PlaceholderList

C4_Witness ==
    /\ ScraperDone
    /\ h_in.kind = "notjson"
    /\ h_in.llm.text = "{\"title\": \"CTO\""
    /\ ~raised(h_out)
    /\ h_out.v.pain_points = PlaceholderList

\* The record C6 expects for one social_proof entry.
ProofMatches(entry, rec) ==
    IF entry.t = "str"
    THEN rec = [statement |-> entry.s, source |-> None]
    ELSE /\ HasKey(entry, "statement") =>
                dict_get(entry, "statement", None) = PyStr(rec.statement)
         /\ rec.source = dict_get(entry, "source", None)

EntriesAreStrOrObj(val) ==
    val.t = "list" /\ \A i \in 1..Len(val.l) : val.l[i].t \in {"str", "obj"}

C7_NullListFieldsEmpty ==
    (ScraperDone /\ h_in.kind = "object" /\ ~raised(h_out)) =>
        \A f \in AllListFields :
            dict_get(h_in.json, f, None) = None => h_out.v[f] = <<>>

C7_Witness ==
    /\ ScraperDone /\ h_in.kind = "object" /\ ~raised(h_out)
    /\ \E f \in AllListFields :
          /\ HasKey(h_in.json, f)
          /\ dict_get(h_in.json, f, PyStr("")) = None
          /\ h_out.v[f] = <<>>
    /\ \E g \in AllListFields : ~HasKey(h_in.json, g) /\ h_out.v[g] = <<>>

\* The pieces of a text between its commas, read character by character.
RECURSIVE PiecesFrom(_, _, _)
PiecesFrom(text, i, cur) ==
    IF i > Len(text) THEN <<cur>>
    ELSE IF CharAt(text, i) = "," THEN <<cur>> \o PiecesFrom(text, i + 1, "")
    ELSE PiecesFrom(text, i + 1, cur \o CharAt(text, i))

RECURSIVE TrimLeft(_)
TrimLeft(t) ==
    IF t /= "" /\ CharAt(t, 1) \in PyWhitespace THEN TrimLeft(StrFrom(t, 2)) ELSE t

RECURSIVE TrimRight(_)
TrimRight(t) ==
    IF t /= "" /\ CharAt(t, Len(t)) \in PyWhitespace
    THEN TrimRight(SubSeq(t, 1, Len(t) - 1)) ELSE t

TrimmedPieces(text) ==
    LET pieces == PiecesFrom(text, 1, "")
        trimmed == [i \in 1..Len(pieces) |-> TrimLeft(TrimRight(pieces[i]))]
    IN  SelectSeq(trimmed, LAMBDA t : t /= "")

\* C8: a string-list field given as one comma-separated string becomes the
\* list of that string's comma-separated pieces, in order, each stripped of
\* surrounding whitespace, the pieces that are empty after stripping omitted.
C8_CommaStringSplit ==
    (ScraperDone /\ h_in.kind = "object" /\ ~raised(h_out)) =>
        \A f \in AllStrFields :
            dict_get(h_in.json, f, None).t = "str" =>
                strs(h_out.v[f]) = TrimmedPieces(dict_get(h_in.json, f, None).s)

C8_Witness ==
    /\ ScraperDone /\ h_in.kind = "object" /\ ~raised(h_out)
    /\ h_in.json = Obj1("solutions", PyStr("a, "))
    /\ h_out.v.solutions = <<PyStr("a")>>


(***************************************************************************)
(* SpecGen: one call of generate_ideas, generate_email_content or          *)
(* generate_linkedin_content on a persona and an LLM outcome.              *)
(***************************************************************************)
\* Personas as a request body gives them (validated by the Persona model).
SamplePersonas ==
    <<[id |-> "scraped_lead", name |-> None, title |-> None, company |-> None,
       email |-> None, pain_points |-> <<>>, social_proof |-> <<>>,
       cost_of_inaction |-> <<>>, solutions |-> <<>>, objections |-> <<>>,
       competitive_advantages |-> <<>>],
      [id |-> "test_lead", name |-> PyStr("Test Company"), title |-> PyStr("CTO"),
       company |-> PyStr("Test Corp"), email |-> PyStr(""),
       pain_points |-> <<PyStr("High costs"), PyStr("Inefficient processes")>>,
       social_proof |-> <<[statement |-> "Saved 30%", source |-> None]>>,
       cost_of_inaction |-> <<PyStr("Lost revenue")>>,
       solutions |-> <<PyStr("AI optimization")>>,
       objections |-> <<PyStr("Budget constraints")>>,
       competitive_advantages |-> <<PyStr("Faster implementation")>>]>>

Msg(subject, body) == Obj2("subject", PyStr(subject), "body", PyStr(body))

\* Replies that are JSON objects without the key the output model requires.
MissingKeyValues ==
    <<PyDict(<<>>), Obj1("idea", PyList(<<PyStr("i1")>>)),
      Obj1("message", PyList(<<Msg("s1", "b1")>>)),
      Obj1("Ideas", PyList(<<PyStr("i1")>>)), Obj1("title", PyStr("CTO"))>>

\* Objects with the key, of every shape: some fit the output model.
KeyedValues ==
    <<PyList(<<>>), PyList(<<PyStr("i1")>>), PyList(<<PyStr("i1"), PyStr("i2")>>),
      PyList(<<PyStr("i1"), PyNum("2")>>), PyList(<<None>>), PyStr("i1, i2"), None,
      PyNum("3"), Obj1("0", PyStr("i1")),
      PyList(<<Msg("s1", "b1")>>),
      PyList(<<Msg("s1", "b1"), Obj1("body", PyStr("b2"))>>),
      PyList(<<Obj2("subject", None, "body", PyStr("b1"))>>),
      PyList(<<Msg("s1", "b1"), Obj1("subject", PyStr("s2"))>>),
      PyList(<<Obj1("body", None)>>), PyList(<<Obj1("body", PyNum("1"))>>),
      PyList(<<Obj2("subject", PyNum("1"), "body", PyStr("b1"))>>),
      PyList(<<PyStr("b1")>>)>>

GenFunctions == {"generate_ideas", "generate_email_content", "generate_linkedin_content"}
KeyOf(fn) == IF fn = "generate_ideas" THEN "ideas" ELSE "messages"

GenInput(fn, persona, kind, llm, json) ==
    [kind |-> kind, fn |-> fn, persona |-> persona, llm |-> llm, json |-> json]

InitGen ==
    /\ ServiceUnused
    /\ h_pc = "ready"
    /\ h_out = NoOut
    /\ \E fn \in GenFunctions, p \in 1..Len(SamplePersonas) :
        \/ h_in = GenInput(fn, SamplePersonas[p], "raise", LLMRaises, None)
        \/ \E i \in 1..Len(NotJsonTexts) :
             h_in = GenInput(fn, SamplePersonas[p], "notjson",
                             LLMReply(NotJsonTexts[i]), None)
        \/ \E i \in 1..Len(NonObjectValues) :
             h_in = GenInput(fn, SamplePersonas[p], "nonobject",
                             LLMReply(json_dumps(NonObjectValues[i])), NonObjectValues[i])
        \/ \E i \in 1..Len(MissingKeyValues) :
             h_in = GenInput(fn, SamplePersonas[p], "nokey",
                             LLMReply(json_dumps(MissingKeyValues[i])), MissingKeyValues[i])
        \/ \E i \in 1..Len(KeyedValues) :
             h_in \in {GenInput(fn, SamplePersonas[p], "keyed",
                                LLMReply(json_dumps(Obj1(KeyOf(fn), KeyedValues[i]))),
                                Obj1(KeyOf(fn), KeyedValues[i])),
                       GenInput(fn, SamplePersonas[p], "keyed",
                                LLMReply(FENCE_JSON \o "\n"
                                         \o json_dumps(Obj2("note", PyStr("x"),
                                                            KeyOf(fn), KeyedValues[i]))
                                         \o "\n" \o FENCE),
                                Obj2("note", PyStr("x"), KeyOf(fn), KeyedValues[i]))}

CallGenerateIdeas ==
    /\ h_pc = "ready" /\ h_in.kind \in {"raise", "notjson", "nonobject", "nokey", "keyed"}
    /\ h_in.fn = "generate_ideas"
    /\ h_out' = generate_ideas(h_in.persona, h_in.llm)
    /\ h_pc' = "done"
    /\ UNCHANGED <<h_in, svars>>

CallGenerateEmail ==
    /\ h_pc = "ready" /\ h_in.kind \in {"raise", "notjson", "nonobject", "nokey", "keyed"}
    /\ h_in.fn = "generate_email_content"
    /\ h_out' = generate_email_content(h_in.persona, h_in.llm)
    /\ h_pc' = "done"
    /\ UNCHANGED <<h_in, svars>>

CallGenerateLinkedin ==
    /\ h_pc = "ready" /\ h_in.kind \in {"raise", "notjson", "nonobject", "nokey", "keyed"}
    /\ h_in.fn = "generate_linkedin_content"
    /\ h_out' = generate_linkedin_content(h_in.persona, h_in.llm)
    /\ h_pc' = "done"
    /\ UNCHANGED <<h_in, svars>>

NextGen == CallGenerateIdeas \/ CallGenerateEmail \/ CallGenerateLinkedin

SpecGen == InitGen /\ [][NextGen]_vars

GenDone == h_pc = "done" /\ h_in.kind \in {"raise", "notjson", "nonobject", "nokey", "keyed"}

\* The list of a generator's output.
OutputList(out) == IF h_in.fn = "generate_ideas" THEN out.ideas ELSE out.messages

\* C5: generate_ideas, generate_email_content and generate_linkedin_content
\* never raise; when the LLM call raises, the reply is not JSON, or the parsed
\* JSON is not an object or lacks the 'ideas' / 'messages' key, the returned
\* output's list is empty.
C5_GeneratorsNeverRaise ==
    GenDone =>
        /\ ~raised(h_out)
        /\ (h_in.kind \in {"raise", "notjson", "nonobject", "nokey"} =>
              OutputList(h_out.v) = <<>>)

C5_Witness ==
    /\ GenDone /\ ~raised(h_out)
    /\ h_in.fn = "generate_email_content"
    /\ h_in.kind = "nokey"
    /\ h_in.json = Obj1("message", PyList(<<Msg("s1", "b1")>>))
    /\ h_out.v.messages = <<>>


(***************************************************************************)
(* SpecFence: the three controllers on a JSON text J and on J wrapped in a *)
(* markdown fence.                                                         *)
(***************************************************************************)
MaxFenceLen == 4

FenceAlphabet == {BT, "\"", "[", "]", "1", " "}

HasFence(text) == find(text, FENCE, 1) /= 0

\* The JSON texts without a triple backtick: every short text over the
\* alphabet that is JSON, and the texts of the replies the prompts ask for.
ShortJsonTexts ==
    {t \in TextsUpTo(FenceAlphabet, MaxFenceLen) : json_loads(t).ok /\ ~HasFence(t)}

ReplyValues ==
    <<Obj1("ideas", PyList(<<PyStr("i1"), PyStr("use " \o BT \o BT \o " here")>>)),
      Obj1("messages", PyList(<<Msg("s1", "b1"), Obj1("body", PyStr("b2"))>>)),
      Obj2("title", PyStr("CTO"), "pain_points", PyStr("a, b")),
      Obj2("company", PyList(<<PyStr(" Acme ")>>),
           "social_proof", PyList(<<PyStr("s1"), Obj1("statement", PyStr("t1"))>>)),
      Obj1("ideas", PyStr("json")), PyList(<<PyStr("json")>>), PyStr("json")>>

Openers == {FENCE_JSON, FENCE}
Separators == {"", " ", "\n"}

FenceInput(J, wrapped) == [kind |-> "fence", J |-> J, wrapped |-> wrapped]

InitFence ==
    /\ ServiceUnused
    /\ h_pc = "ready"
    /\ h_out = NoOut
    /\ \E open \in Openers, sep1 \in Separators, sep2 \in Separators :
        \/ \E J \in ShortJsonTexts :
             h_in = FenceInput(J, open \o sep1 \o J \o sep2 \o FENCE)
        \/ \E i \in 1..Len(ReplyValues), lead \in {"", "\n"} :
             h_in = FenceInput(json_dumps(ReplyValues[i]),
                               lead \o open \o sep1 \o json_dumps(ReplyValues[i])
                                    \o sep2 \o FENCE \o lead)

\* What each controller returns for a reply text.
ControllerResults(text) ==
    [persona |-> persona_from_reply(LLMReply(text), UUID1),
     ideas |-> generate_ideas(SamplePersonas[2], LLMReply(text)),
     email |-> generate_email_content(SamplePersonas[2], LLMReply(text)),
     parsed |-> parse_reply(LLMReply(text))]

CallOnPlainAndFenced ==
    /\ h_pc = "ready" /\ h_in.kind = "fence"
    /\ h_out' = [plain |-> ControllerResults(h_in.J),
                 fenced |-> ControllerResults(h_in.wrapped)]
    /\ h_pc' = "done"
    /\ UNCHANGED <<h_in, svars>>

NextFence == CallOnPlainAndFenced

SpecFence == InitFence /\ [][NextFence]_vars

FenceDone == h_pc = "done" /\ h_in.kind = "fence"

\* C9: for every JSON text J without a triple backtick, the reply J wrapped in
\* a json fence or in a bare fence yields the same result as the reply J
\* alone: the same persona (the generated id apart), the same ideas list, the
\* same messages list.
C9_FenceTransparent ==
    FenceDone =>
        /\ h_out.fenced.persona = h_out.plain.persona
        /\ h_out.fenced.ideas = h_out.plain.ideas
        /\ h_out.fenced.email = h_out.plain.email
        /\ ~raised(h_out.fenced.parsed)

C9_Witness ==
    /\ FenceDone
    /\ h_in.wrapped = FENCE_JSON \o "\n" \o h_in.J \o "\n" \o FENCE
    /\ ~raised(h_out.fenced.ideas)
    /\ Len(h_out.fenced.ideas.v.ideas) = 2
    /\ h_out.fenced.ideas = h_out.plain.ideas

(***************************************************************************)
(* The service: app/main.py with app/database.  A request is received into *)
(* a slot and its handler runs in steps.  The handlers are coroutines on   *)
(* one event loop and call the scraper, the LLM client and the generators  *)
(* synchronously: a handler keeps the loop from its first statement to its *)
(* await of insert_one, and from the insert's completion to its response.  *)
(* datetime.utcnow() values (created_at, timestamp) are left out of the    *)
(* documents.                                                              *)
(***************************************************************************)
MaxRequests == 2

\* Mutant of uuid4: every draw gives the same value.
uuid4_constant(n) == "uuid-0"

\* str(uuid.uuid4()): the n-th value drawn; no two draws are equal.
uuid4(n) == "uuid-" \o ToString(n)

\* Exceptions in flight in main.py: HTTPException(status_code, detail), and
\* every other exception with the text of its str().
HTTPException(status_code, detail) ==
    [type |-> "HTTPException", status_code |-> status_code, detail |-> detail]
Exception(type, text) == [type |-> type, status_code |-> 0, detail |-> text]

\* str(e).  Starlette's HTTPException has "<status_code>: <detail>" where it
\* defines __str__, and the empty string where it does not.
str(e, shows_detail) ==
    IF e.type = "HTTPException"
    THEN IF shows_detail THEN ToString(e.status_code) \o ": " \o e.detail ELSE ""
    ELSE e.detail

\* sub in s
contains(s, sub) == find(s, sub, 1) /= 0

\* The text of the exceptions persona_scraper lets escape.
exception_text(name) ==
    CASE name = "AttributeError" -> "object has no attribute 'get'"
      [] name = "ValidationError" -> "validation error for Persona"
      [] OTHER -> name

\* str() of the exception persona_scraper lets escape.  A pydantic
\* ValidationError quotes each rejected input value (here in JSON notation,
\* which has the same letters as Python's repr): the elements of the string
\* lists that are not strings.
rejected_inputs(val) ==
    IF isinstance(val, "list")
    THEN concat_all([j \in 1..Len(val.l) |->
             IF isinstance(val.l[j], "str") THEN ""
             ELSE " input_value=" \o json_dumps(val.l[j])])
    ELSE ""
persona_scraper_text(name, patched) ==
    IF name = "ValidationError" /\ ~raised(patched)
    THEN exception_text(name) \o
         concat_all([i \in 1..Len(StrListFields) |->
             rejected_inputs(dict_get(patched.v, StrListFields[i], None))])
    ELSE exception_text(name)

\* The response FastAPI sends: the handler's return value with status 200, an
\* HTTPException's status and detail, 500 for any other exception.
success(body) == [status |-> 200, detail |-> "", body |-> body]
answer(e) ==
    IF e.type = "HTTPException"
    THEN [status |-> e.status_code, detail |-> e.detail, body |-> NoValue]
    ELSE [status |-> 500, detail |-> "Internal Server Error", body |-> NoValue]

\* main.py 182-186, 229-233, 413-417: except Exception as db_error.
database_error(db_error, shows_detail) ==
    HTTPException(500, "Database error: " \o str(db_error, shows_detail))

\* Mutant of create_persona_except: every exception is re-raised.
create_persona_except_reraise(e, shows_detail) == e

\* main.py 190-195: the outer except of create_persona.
create_persona_except(e, shows_detail) ==
    IF contains(str(e, shows_detail), "Database error") THEN e
    ELSE HTTPException(400, str(e, shows_detail))

\* main.py 236-240: the outer except of get_ideas.
get_ideas_except(e, shows_detail) ==
    IF contains(str(e, shows_detail), "Database error") THEN e
    ELSE HTTPException(500, "Failed to generate ideas: " \o str(e, shows_detail))

\* Mutant of insert_failed_response: every handler goes on to its return.
insert_failed_response_swallowed(ep, e, shows_detail, body) == success(body)

\* What the caller gets when the insert of the endpoint's document raised e
\* (for /create_campaign: the except at 319-320 prints and goes on).
insert_failed_response(ep, e, shows_detail, body) ==
    CASE ep = "/persona" ->
           answer(create_persona_except(database_error(e, shows_detail), shows_detail))
      [] ep = "/ideas" ->
           answer(get_ideas_except(database_error(e, shows_detail), shows_detail))
      [] ep = "/create_campaign" -> success(body)
      [] ep = "/create_campaign_create_campaign_post" ->
           answer(database_error(e, shows_detail))

NotAvailable == Exception("Exception", "Database connection not available")
NotConnected == Exception("Exception", "Database not connected")
InsertOneError == Exception("PyMongoError", "insert_one failed")

\* main.py 110, 197, 242, 327 and the collection each handler inserts into.
CampaignEndpoints == {"/create_campaign", "/create_campaign_create_campaign_post"}
collection_of(ep) ==
    CASE ep = "/persona" -> "persona"
      [] ep = "/ideas" -> "ideas"
      [] OTHER -> "campaign"

\* main.py 136-148: SocialProof objects to dictionaries.
social_proof_dicts(social_proof_list) ==
    [i \in 1..Len(social_proof_list) |->
        PyDict(<<[k |-> "statement", v |-> PyStr(social_proof_list[i].statement)],
                 [k |-> "source", v |-> social_proof_list[i].source]>>)]

\* Mutant of persona_doc: the document takes the fresh uuid as its id, and
\* no social proof.
persona_doc_fresh_id(persona, url, description, persona_id) ==
    [id |-> persona_id, url |-> url, description |-> description,
     title |-> persona.title, company |-> persona.company,
     name |-> persona.name, email |-> persona.email,
     pain_points |-> persona.pain_points, social_proof |-> <<>>,
     cost_of_inaction |-> persona.cost_of_inaction,
     solutions |-> persona.solutions, objections |-> persona.objections,
     competitive_advantages |-> persona.competitive_advantages,
     persona_id |-> persona_id]

\* main.py 150-166
persona_doc(persona, url, description, persona_id) ==
    [id |-> persona.id, url |-> url, description |-> description,
     title |-> persona.title, company |-> persona.company,
     name |-> persona.name, email |-> persona.email,
     pain_points |-> persona.pain_points,
     social_proof |-> social_proof_dicts(persona.social_proof),
     cost_of_inaction |-> persona.cost_of_inaction,
     solutions |-> persona.solutions, objections |-> persona.objections,
     competitive_advantages |-> persona.competitive_advantages,
     persona_id |-> persona_id]

\* main.py 208-215
ideas_doc(persona_data, ideas, ideas_id) ==
    [persona_title |-> persona_data.title, persona_company |-> persona_data.company,
     persona_name |-> persona_data.name, ideas |-> ideas.ideas, ideas_id |-> ideas_id]

\* Mutant of campaign_content: the two single channels exchanged.
campaign_content_swapped(channel, email_output, linkedin_output) ==
    CASE channel = "email" -> PyList(linkedin_output.messages)
      [] channel = "linkedin" -> PyList(email_output.messages)
      [] channel = "useboth" ->
           PyDict(<<[k |-> "email", v |-> PyList(email_output.messages)],
                    [k |-> "linkedin", v |-> PyList(linkedin_output.messages)]>>)

\* main.py 257-278: the channel's generators, their results, and the message
\* and content_type put into campaign_details.
campaign_content(channel, email_output, linkedin_output) ==
    CASE channel = "email" -> PyList(email_output.messages)
      [] channel = "linkedin" -> PyList(linkedin_output.messages)
      [] channel = "useboth" ->
           PyDict(<<[k |-> "email", v |-> PyList(email_output.messages)],
                    [k |-> "linkedin", v |-> PyList(linkedin_output.messages)]>>)

\* Mutant of campaign_prompts: the email generator asks the LLM twice.
campaign_prompts_retry(channel, persona) ==
    CASE channel = "email" -> <<create_email_content_prompt("3", persona),
                                create_email_content_prompt("3", persona)>>
      [] channel = "linkedin" -> <<create_linked_content_prompt("3", persona)>>
      [] channel = "useboth" -> <<create_email_content_prompt("3", persona),
                                  create_linked_content_prompt("3", persona)>>

campaign_prompts(channel, persona) ==
    CASE channel = "email" -> <<create_email_content_prompt("3", persona)>>
      [] channel = "linkedin" -> <<create_linked_content_prompt("3", persona)>>
      [] channel = "useboth" -> <<create_email_content_prompt("3", persona),
                                  create_linked_content_prompt("3", persona)>>

campaign_message(channel) ==
    CASE channel = "email" -> "Email campaign created."
      [] channel = "linkedin" -> "LinkedIn campaign created."
      [] channel = "useboth" -> "Multi-channel campaign created."

content_type(channel) ==
    CASE channel = "email" -> "email"
      [] channel = "linkedin" -> "linkedin"
      [] channel = "useboth" -> "multi_channel"

\* main.py 250-256 with the keys added at 261-276
campaign_details(channel, persona, campaign_id) ==
    [outreach_channel |-> channel, persona_title |-> persona.title,
     persona_company |-> persona.company, campaign_id |-> campaign_id,
     message |-> campaign_message(channel), content_type |-> content_type(channel)]

\* main.py 283-299
RECURSIVE convert_message_content_to_dict(_)
convert_message_content_to_dict(content) ==
    IF "body" \in DOMAIN content
    THEN PyDict(<<[k |-> "subject", v |-> content.subject],
                  [k |-> "body", v |-> PyStr(content.body)]>>)
    ELSE IF content.t = "list"
    THEN PyList([i \in 1..Len(content.l) |->
                    convert_message_content_to_dict(content.l[i])])
    ELSE IF content.t = "obj"
    THEN PyDict([i \in 1..Len(content.o) |->
                    [k |-> content.o[i].k,
                     v |-> convert_message_content_to_dict(content.o[i].v)]])
    ELSE content

\* main.py 305-314
campaign_doc(details, generated_content, persona) ==
    [details |-> details,
     generated_content |-> convert_message_content_to_dict(generated_content),
     status |-> "active",
     persona_data |-> [title |-> persona.title, company |-> persona.company]]

\* main.py 321-325
CampaignResponse(channel, details, generated_content) ==
    [message |-> "Campaign successfully created for '" \o channel \o "' channel.",
     campaign_details |-> details, generated_content |-> generated_content]

(***************************************************************************)
(* What the environment supplies to the service.                           *)
(***************************************************************************)
Urls == <<"https://example.com", "example.com">>
Descriptions == <<"B2B SaaS", "  ">>

Page == <<El("main", <<El("h1", <<Text("Acme")>>), El("p", <<Text(" We sell ")>>)>>),
          El("p", <<Text("footer")>>)>>
Fetches == <<FetchFails, FetchOk(Page), FetchOk(<<>>)>>

GoodPersonaJson ==
    PyDict(<<[k |-> "title", v |-> PyStr("CTO")],
             [k |-> "company", v |-> PyStr("Acme")],
             [k |-> "pain_points", v |-> PyStr("cost, time")],
             [k |-> "social_proof", v |-> PyList(<<PyStr("Saved 30%")>>)]>>)
PersonaReplies ==
    <<LLMRaises, LLMReply("not json"), LLMReply("[]"),
      LLMReply(FENCE_JSON \o "\n" \o json_dumps(GoodPersonaJson) \o "\n" \o FENCE),
      LLMReply(json_dumps(Obj1("pain_points",
                   PyList(<<Obj1("Database error", PyNum("1"))>>))))>>
IdeaReplies ==
    <<LLMRaises, LLMReply("{}"),
      LLMReply(json_dumps(Obj1("ideas", PyList(<<PyStr("i1"), PyStr("i2")>>))))>>
MessageReplies ==
    <<LLMRaises, LLMReply(json_dumps(Obj1("messages", PyList(<<Msg("s1", "b1")>>))))>>
Channels == <<"email", "linkedin", "useboth">>

\* The settings a deployment can have: what class Settings defines, and
\* the same with the two attributes main.py and app/database read from it.
SettingsOptions == {SettingsClass, SettingsClass \cup {"MONGO_URL", "DATABASE_NAME"}}

(***************************************************************************)
(* The actions.                                                            *)
(***************************************************************************)
envvars == <<phase, client, database, settings, exc_str, slots>>

Init ==
    /\ HarnessUnused
    /\ ServiceNew
    /\ phase = "new"
    /\ settings \in SettingsOptions
    /\ exc_str \in BOOLEAN
    /\ slots = {1}

\* app/database/__init__.py 64-66: the module's global, as it is.
get_database == database

\* app/database/__init__.py 48-53: closes the client when there is one; the
\* global `database` is not assigned.
close_mongo_connection == IF client /= "none" THEN "closed" ELSE client

\* Collection.insert_one, delete_one({"_id": id}) and find({}) on the
\* documents of one collection.
insert_one_replace(docs, doc) == <<doc>>
insert_one(docs, doc) == Append(docs, doc)
delete_one(docs, id) ==
    LET hits == {i \in 1..Len(docs) : "_id" \in DOMAIN docs[i] /\ docs[i]._id = id}
    IN  IF hits = {} THEN docs
        ELSE LET i == CHOOSE h \in hits : \A g \in hits : h <= g
             IN  SubSeq(docs, 1, i - 1) \o SubSeq(docs, i + 1, Len(docs))
find_documents(docs) == PyList(docs)

ReadEndpoints == {"GET /personas", "GET /campaigns", "GET /ideas"}
read_collection(ep) ==
    CASE ep = "GET /personas" -> "persona"
      [] ep = "GET /campaigns" -> "campaign"
      [] OTHER -> "ideas"
read_failed(ep, text) ==
    HTTPException(500, "Failed to retrieve " \o SubSeq(ep, 6, Len(ep)) \o ": " \o text)

\* main.py 62: the collection GET /db-test writes to.
test_collection_persona == "persona"
test_collection == "test"

\* main.py 52-76: the dictionaries GET /db-test returns.
db_test_body(status, message) ==
    PyDict(<<[k |-> "status", v |-> PyStr(status)],
             [k |-> "message", v |-> PyStr(message)]>>)
db_test_error(text) == db_test_body("error", "Database test failed: " \o text)
db_test_return(has) ==
    IF "DATABASE_NAME" \in has
    THEN db_test_body("success", "Database connection working")
    ELSE db_test_error("'Settings' object has no attribute 'DATABASE_NAME'")

\* app/database/__init__.py 17-31, as [client, database, raised] from the
\* globals: reading a setting the object lacks raises AttributeError before
\* anything is assigned; a failing ping raises after both are assigned.
connect_to_mongo(has, ping_ok) ==
    IF "MONGO_URL" \notin has \/ "DATABASE_NAME" \notin has
    THEN [client |-> client, database |-> database, raised |-> TRUE]
    ELSE [client |-> "open", database |-> "db", raised |-> ~ping_ok]

\* main.py 78-98: the startup event.  Line 83 reads settings.DATABASE_NAME
\* before connecting; an exception leaves the handler and the server exits.
startup_db_client ==
    /\ phase = "new"
    /\ \E ping_ok \in BOOLEAN :
         IF "DATABASE_NAME" \notin settings
         THEN phase' = "failed" /\ UNCHANGED <<client, database>>
         ELSE LET c == connect_to_mongo(settings, ping_ok)
              IN  /\ client' = c.client
                  /\ database' = c.database
                  /\ phase' = IF c.raised THEN "failed" ELSE "serving"
    /\ UNCHANGED <<hvars, settings, exc_str, store, writes, slots, req, loop,
                   uuids, received>>

\* The application served without its lifespan events.
ServeWithoutLifespan ==
    /\ phase = "new"
    /\ phase' = "nolifespan"
    /\ UNCHANGED <<hvars, client, database, settings, exc_str, store, writes,
                   slots, req, loop, uuids, received>>

\* main.py 100-104 with app/database/__init__.py 48-53: the shutdown event,
\* after the requests in progress have been answered.
shutdown_db_client ==
    /\ phase = "serving"
    /\ \A r \in slots : req[r].pc \in {"idle", "done"}
    /\ phase' = "stopped"
    /\ client' = close_mongo_connection
    /\ UNCHANGED <<hvars, database, settings, exc_str, store, writes, slots, req,
                   loop, uuids, received>>

CanReceive(r) ==
    /\ phase \in {"serving", "nolifespan"}
    /\ r \in slots
    /\ req[r].pc \in {"idle", "done"}
    \* a request is numbered by the lowest free position: which position it
    \* takes has no counterpart in the server, so one is enough
    /\ \A other \in slots : other < r => req[other].pc \notin {"idle", "done"}
    /\ loop = 0
    /\ received < MaxRequests

Runs(r) == r \in slots /\ loop = r

Responded(q, resp, cause) == [q EXCEPT !.pc = "done", !.resp = resp, !.cause = cause]

\* POST /persona arrives.
ReceivePersona(r) ==
    /\ CanReceive(r)
    /\ \E i \in 1..Len(Urls), j \in 1..Len(Descriptions) :
         req' = [req EXCEPT ![r] =
                    [IdleRequest EXCEPT !.pc = "validate", !.ep = "/persona",
                                        !.url = Urls[i],
                                        !.description = Descriptions[j]]]
    /\ loop' = r
    /\ received' = received + 1
    /\ UNCHANGED <<hvars, envvars, store, writes, uuids>>

\* main.py 117-125
PersonaValidate(r) ==
    /\ Runs(r)
    /\ req[r].pc = "validate"
    /\ LET q == req[r]
           e == IF ~(startswith(q.url, "http://") \/ startswith(q.url, "https://"))
                THEN Exception("ValueError", "URL must start with http:// or https://")
                ELSE IF strip(q.description) = ""
                THEN Exception("ValueError", "Description cannot be empty")
                ELSE NoValue
       IN  IF e /= NoValue
           THEN /\ req' = [req EXCEPT ![r] =
                      Responded(q, answer(create_persona_except(e, exc_str)),
                                "validation")]
                /\ loop' = 0
           ELSE /\ req' = [req EXCEPT ![r].pc = "scrape"]
                /\ UNCHANGED loop
    /\ UNCHANGED <<hvars, envvars, store, writes, uuids, received>>

\* persona_controller.py 42-80: requests.get and the extraction, inside try.
PersonaScrape(r) ==
    /\ Runs(r)
    /\ req[r].pc = "scrape"
    /\ \E i \in 1..Len(Fetches) :
         req' = [req EXCEPT ![r].pc = "llm",
                            ![r].gets = @ + 1,
                            ![r].fetch_ok = Fetches[i].ok,
                            ![r].web_content = scrape(Fetches[i])]
    /\ UNCHANGED <<hvars, envvars, store, writes, loop, uuids, received>>

\* persona_controller.py 83-181, then main.py 131 and 190-195 if it raised.
PersonaGenerate(r) ==
    /\ Runs(r)
    /\ req[r].pc = "llm"
    /\ \E i \in 1..Len(PersonaReplies) :
         LET q == req[r]
             prompt == create_persona_prompt(q.web_content, q.description)
             reply == generate_content(prompt, PersonaReplies[i])
             persona_json == parse_persona_reply(reply)
             persona == build_persona(persona_json, uuid4(uuids + 1))
             called == [q EXCEPT !.prompts = Append(@, prompt), !.result = persona]
         IN  /\ uuids' = IF raised(patch_null_lists(persona_json))
                         THEN uuids ELSE uuids + 1
             /\ IF raised(persona)
                THEN /\ req' = [req EXCEPT ![r] =
                           Responded(called,
                               answer(create_persona_except(
                                   Exception(persona.exc,
                                       persona_scraper_text(persona.exc,
                                           patch_null_lists(persona_json))),
                                   exc_str)),
                               "persona_scraper")]
                     /\ loop' = 0
                ELSE /\ req' = [req EXCEPT ![r] = [called EXCEPT !.pc = "save"]]
                     /\ UNCHANGED loop
    /\ UNCHANGED <<hvars, envvars, store, writes, received>>

\* The handler reaches its insert with document doc and, on success, body.
\* With check (main.py 173-176, 221-224, 404-407) a missing handle raises in
\* the handler; without it insert_document raises (db_utils.py 12-14).
\* Otherwise insert_one is issued and the handler awaits it.
Save(r, doc, body, check, moved) ==
    LET q == [moved EXCEPT !.doc = doc, !.result = Ret(body)]
    IN  IF database = "none"
        THEN /\ req' = [req EXCEPT ![r] =
                   Responded([q EXCEPT !.db_failed = TRUE],
                       insert_failed_response(q.ep,
                           IF check THEN NotAvailable ELSE NotConnected,
                           exc_str, body),
                       "database")]
             /\ loop' = 0
             /\ UNCHANGED writes
        ELSE /\ req' = [req EXCEPT ![r] =
                   [q EXCEPT !.pc = "inserting", !.inserts = @ + 1]]
             /\ loop' = 0
             /\ writes' = Append(writes, [op |-> "insert_one",
                                          collection |-> collection_of(q.ep)])

\* main.py 136-178
PersonaSave(r) ==
    /\ Runs(r)
    /\ req[r].pc = "save"
    /\ LET q == req[r]
           persona == q.result.v
       IN  Save(r, persona_doc(persona, q.url, q.description, uuid4(uuids + 1)),
                persona, TRUE, q)
    /\ uuids' = uuids + 1
    /\ UNCHANGED <<hvars, envvars, store, received>>

\* POST /ideas arrives with a Persona as its body.
ReceiveIdeas(r) ==
    /\ CanReceive(r)
    /\ \E i \in 1..Len(SamplePersonas) :
         req' = [req EXCEPT ![r] =
                    [IdleRequest EXCEPT !.pc = "run", !.ep = "/ideas",
                                        !.persona_in = SamplePersonas[i]]]
    /\ loop' = r
    /\ received' = received + 1
    /\ UNCHANGED <<hvars, envvars, store, writes, uuids>>

\* main.py 202-226
IdeasRun(r) ==
    /\ Runs(r)
    /\ req[r].pc = "run"
    /\ req[r].ep = "/ideas"
    /\ \E i \in 1..Len(IdeaReplies) :
         LET q == req[r]
             prompt == create_idea_generation_prompt("3", q.persona_in)
             ideas == generate_ideas(q.persona_in, IdeaReplies[i]).v
         IN  Save(r, ideas_doc(q.persona_in, ideas, uuid4(uuids + 1)), ideas, TRUE,
                  [q EXCEPT !.prompts = Append(@, prompt)])
    /\ uuids' = uuids + 1
    /\ UNCHANGED <<hvars, envvars, store, received>>

\* POST /create_campaign or POST /create_campaign_create_campaign_post
\* arrives with a persona and a channel.
ReceiveCampaign(r) ==
    /\ CanReceive(r)
    /\ \E ep \in CampaignEndpoints, i \in 1..Len(SamplePersonas),
          j \in 1..Len(Channels) :
         req' = [req EXCEPT ![r] =
                    [IdleRequest EXCEPT !.pc = "run", !.ep = ep,
                                        !.persona_in = SamplePersonas[i],
                                        !.channel = Channels[j]]]
    /\ loop' = r
    /\ received' = received + 1
    /\ UNCHANGED <<hvars, envvars, store, writes, uuids>>

\* main.py 248-316 and 333-409
CampaignRun(r) ==
    /\ Runs(r)
    /\ req[r].pc = "run"
    /\ req[r].ep \in CampaignEndpoints
    /\ \E i \in 1..Len(MessageReplies), j \in 1..Len(MessageReplies) :
         LET q == req[r]
             persona == q.persona_in
             channel == q.channel
             details == campaign_details(channel, persona, uuid4(uuids + 1))
             email_output == generate_email_content(persona, MessageReplies[i]).v
             linkedin_output == generate_linkedin_content(persona, MessageReplies[j]).v
             generated_content == campaign_content(channel, email_output, linkedin_output)
             called == [q EXCEPT !.prompts = campaign_prompts(channel, persona),
                                 !.result = Ret(generated_content)]
         IN  IF ~truthy(generated_content)
             THEN /\ req' = [req EXCEPT ![r] =
                        Responded(called,
                            answer(HTTPException(500,
                                "Failed to generate any campaign content.")),
                            "no content")]
                  /\ loop' = 0
                  /\ UNCHANGED writes
             ELSE Save(r, campaign_doc(details, generated_content, persona),
                       CampaignResponse(channel, details, generated_content),
                       q.ep = "/create_campaign_create_campaign_post", called)
    /\ uuids' = uuids + 1
    /\ UNCHANGED <<hvars, envvars, store, received>>

\* insert_one returns: the document is in the collection, and the handler
\* runs on to its return (main.py 179-189, 227-235, 317-325, 410-423).
InsertReturns(r) ==
    /\ r \in slots
    /\ loop = 0
    /\ req[r].pc = "inserting"
    /\ store' = [store EXCEPT ![collection_of(req[r].ep)] = insert_one(@, req[r].doc)]
    /\ req' = [req EXCEPT ![r] = Responded(req[r], success(req[r].result.v), "")]
    /\ UNCHANGED <<hvars, envvars, writes, loop, uuids, received>>

\* insert_one raises: insert_document re-raises (db_utils.py 20-22) and the
\* handler's except clause decides the response.
InsertRaises(r) ==
    /\ r \in slots
    /\ loop = 0
    /\ req[r].pc = "inserting"
    /\ req' = [req EXCEPT ![r] =
           Responded([req[r] EXCEPT !.db_failed = TRUE],
               insert_failed_response(req[r].ep, InsertOneError, exc_str,
                                      req[r].result.v),
               "database")]
    /\ UNCHANGED <<hvars, envvars, store, writes, loop, uuids, received>>

\* GET /db-test arrives.
ReceiveDbTest(r) ==
    /\ CanReceive(r)
    /\ req' = [req EXCEPT ![r] =
                  [IdleRequest EXCEPT !.pc = "db_test", !.ep = "GET /db-test"]]
    /\ loop' = r
    /\ received' = received + 1
    /\ UNCHANGED <<hvars, envvars, store, writes, uuids>>

\* main.py 55-64: without a handle the error dictionary is returned; else
\* insert_one is issued on the collection "test" and awaited.
DbTestRun(r) ==
    /\ Runs(r)
    /\ req[r].pc = "db_test"
    /\ IF get_database = "none"
       THEN /\ req' = [req EXCEPT ![r] =
                  Responded(req[r],
                      success(db_test_body("error", "Database not connected")),
                      "")]
            /\ UNCHANGED writes
       ELSE /\ req' = [req EXCEPT ![r] =
                  [req[r] EXCEPT !.pc = "test_inserting", !.inserts = @ + 1,
                       !.doc = [test |-> "connection", _id |-> Len(writes) + 1]]]
            /\ writes' = Append(writes, [op |-> "insert_one",
                                      collection |-> test_collection])
    /\ loop' = 0
    /\ UNCHANGED <<hvars, envvars, store, uuids, received>>

\* main.py 64-67: insert_one returned; delete_one of the inserted _id is
\* issued on the same collection and awaited.
DbTestInserted(r) ==
    /\ r \in slots
    /\ loop = 0
    /\ req[r].pc = "test_inserting"
    /\ store' = [store EXCEPT ![test_collection] = insert_one(@, req[r].doc)]
    /\ writes' = Append(writes, [op |-> "delete_one", collection |-> test_collection])
    /\ req' = [req EXCEPT ![r].pc = "test_deleting"]
    /\ UNCHANGED <<hvars, envvars, loop, uuids, received>>

\* main.py 67-74: delete_one returned; the success dictionary reads
\* settings.DATABASE_NAME inside the try block.
DbTestDeleted(r) ==
    /\ r \in slots
    /\ loop = 0
    /\ req[r].pc = "test_deleting"
    /\ store' = [store EXCEPT ![test_collection] = delete_one(@, req[r].doc._id)]
    /\ req' = [req EXCEPT ![r] =
                  Responded(req[r], success(db_test_return(settings)), "")]
    /\ UNCHANGED <<hvars, envvars, writes, loop, uuids, received>>

\* main.py 75-76: insert_one or delete_one raised; the handler returns the
\* error dictionary.
DbTestRaises(r) ==
    /\ r \in slots
    /\ loop = 0
    /\ req[r].pc \in {"test_inserting", "test_deleting"}
    /\ req' = [req EXCEPT ![r] =
                  Responded([req[r] EXCEPT !.db_failed = TRUE],
                      success(db_test_error(InsertOneError.detail)), "database")]
    /\ UNCHANGED <<hvars, envvars, store, writes, loop, uuids, received>>

\* GET /personas, /campaigns or /ideas arrives.
ReceiveRead(r) ==
    /\ CanReceive(r)
    /\ \E ep \in ReadEndpoints :
         req' = [req EXCEPT ![r] = [IdleRequest EXCEPT !.pc = "read", !.ep = ep]]
    /\ loop' = r
    /\ received' = received + 1
    /\ UNCHANGED <<hvars, envvars, store, writes, uuids>>

\* main.py 427-454 with db_utils.py 41-54: without a handle find_documents
\* raises and the handler answers 500; else the cursor is awaited.
ReadRun(r) ==
    /\ Runs(r)
    /\ req[r].pc = "read"
    /\ req' = [req EXCEPT ![r] =
           IF get_database = "none"
           THEN Responded(req[r],
                    answer(read_failed(req[r].ep, NotConnected.detail)), "database")
           ELSE [req[r] EXCEPT !.pc = "finding"]]
    /\ loop' = 0
    /\ UNCHANGED <<hvars, envvars, store, writes, uuids, received>>

\* cursor.to_list returned the documents of the collection.
FindReturns(r) ==
    /\ r \in slots
    /\ loop = 0
    /\ req[r].pc = "finding"
    /\ req' = [req EXCEPT ![r] =
           Responded(req[r],
               success(find_documents(store[read_collection(req[r].ep)])), "")]
    /\ UNCHANGED <<hvars, envvars, store, writes, loop, uuids, received>>

\* cursor.to_list raised.
FindRaises(r) ==
    /\ r \in slots
    /\ loop = 0
    /\ req[r].pc = "finding"
    /\ req' = [req EXCEPT ![r] =
           Responded(req[r],
               answer(read_failed(req[r].ep, InsertOneError.detail)), "database")]
    /\ UNCHANGED <<hvars, envvars, store, writes, loop, uuids, received>>

Next ==
    \/ startup_db_client
    \/ ServeWithoutLifespan
    \/ shutdown_db_client
    \/ \E r \in AllSlots :
         \/ ReceivePersona(r)
         \/ PersonaValidate(r)
         \/ PersonaScrape(r)
         \/ PersonaGenerate(r)
         \/ PersonaSave(r)
         \/ ReceiveIdeas(r)
         \/ IdeasRun(r)
         \/ ReceiveCampaign(r)
         \/ CampaignRun(r)
         \/ InsertReturns(r)
         \/ InsertRaises(r)
         \/ ReceiveDbTest(r)
         \/ DbTestRun(r)
         \/ DbTestInserted(r)
         \/ DbTestDeleted(r)
         \/ DbTestRaises(r)
         \/ ReceiveRead(r)
         \/ ReadRun(r)
         \/ FindReturns(r)
         \/ FindRaises(r)

Spec == Init /\ [][Next]_vars

(***************************************************************************)
(* Claims about the request handlers, checked under Spec.                  *)
(***************************************************************************)
Answered(r) == r \in slots /\ req[r].pc = "done"
PersistingEndpoints == {"/persona", "/ideas"} \cup CampaignEndpoints
IsError(resp) == resp.status >= 400
InvalidPersonaRequest(q) ==
    \/ ~(startswith(q.url, "http://") \/ startswith(q.url, "https://"))
    \/ strip(q.description) = ""

\* C2: on every persisting endpoint, a request whose document insert failed
\* is answered with an error response, never with a success response.
C2_InsertFailureIsError ==
    \A r \in slots :
        Answered(r) /\ req[r].ep \in PersistingEndpoints /\ req[r].db_failed =>
            IsError(req[r].resp)

C10_EmptyContentStillCallsLLM ==
    \A r \in slots :
        req[r].ep = "/persona" /\ req[r].gets > 0 /\ ~req[r].fetch_ok =>
            /\ req[r].web_content = ""
            /\ req[r].gets = 1
            /\ req[r].pc = "llm" => req[r].prompts = <<>>
            /\ req[r].pc \in {"save", "inserting", "done"} =>
                 req[r].prompts = <<create_persona_prompt("", req[r].description)>>

C10_Witness ==
    \E r \in slots :
        /\ Answered(r)
        /\ req[r].ep = "/persona"
        /\ req[r].gets = 1 /\ ~req[r].fetch_ok
        /\ Len(req[r].prompts) = 1
        /\ req[r].resp.status = 200
        /\ req[r].resp.body.title = PyStr("CTO")

WriteOnceCollections == {"persona", "ideas", "campaign"}
IsPrefix(old, new) == Len(old) <= Len(new) /\ SubSeq(new, 1, Len(old)) = old
Touched(r) == r \in slots /\ req'[r] /= req[r]

\* C13: in every step, each document already in the persona, ideas or
\* campaign collection stays there unchanged and in place (the collection
\* only grows at its end), and a step of GET /personas, /ideas or
\* /campaigns leaves all collections as they are.
C13_WriteOnce ==
    [][/\ \A c \in WriteOnceCollections : IsPrefix(store[c], store'[c])
       /\ \A r \in AllSlots :
            Touched(r) /\ req'[r].ep \in ReadEndpoints => store' = store]_vars

\* A stored persona has been read back by GET /personas and is still stored.
C13_Witness ==
    \E r \in slots :
        /\ Answered(r)
        /\ req[r].ep = "GET /personas"
        /\ req[r].resp.status = 200
        /\ store.persona /= <<>>
        /\ req[r].resp.body = find_documents(store.persona)

(***************************************************************************)
(* Claims about the campaign endpoints and the prompts.                    *)
(***************************************************************************)
Generated(r) ==
    r \in slots /\ req[r].ep \in CampaignEndpoints /\ req[r].pc \in {"inserting", "done"}
EmailLists(persona) ==
    {PyList(generate_email_content(persona, MessageReplies[i]).v.messages) :
        i \in 1..Len(MessageReplies)}
LinkedinLists(persona) ==
    {PyList(generate_linkedin_content(persona, MessageReplies[i]).v.messages) :
        i \in 1..Len(MessageReplies)}
ContentTypeOf(q) == q.resp.body.campaign_details.content_type
ContentOf(q) ==
    IF "generated_content" \in DOMAIN q.result.v THEN q.result.v.generated_content
    ELSE q.result.v

C15_LinkedinPromptIsText ==
    \A r \in slots :
        Generated(r) /\ req[r].channel \in {"linkedin", "useboth"} =>
            LET prompt == req[r].prompts[Len(req[r].prompts)]
            IN  /\ prompt = create_linked_content_prompt("3", req[r].persona_in)
                /\ isinstance(prompt, "str")
                /\ contains(prompt.s, "Title")

(***************************************************************************)
(* Claims about configuration, retries and POST /persona.                  *)
(***************************************************************************)
StartupRan == phase \in {"serving", "failed", "stopped"}
PingFailed == phase = "failed" /\ client = "open"

\* C16: with the settings that class Settings defines (GEMINI_API_KEY only)
\* and a store that answers the ping, the startup handler completes and
\* leaves the database handle set.
C16_StartupNeedsOnlyApiKey ==
    settings = SettingsClass /\ StartupRan /\ ~PingFailed =>
        phase /= "failed" /\ get_database = "db"

Inserts(collection) ==
    Cardinality({i \in 1..Len(writes) :
                    writes[i] = [op |-> "insert_one", collection |-> collection]})
LLMCallsAllowed(q) ==
    CASE q.ep \in {"/persona", "/ideas"} -> 1
      [] q.ep \in CampaignEndpoints -> IF q.channel = "useboth" THEN 2 ELSE 1
      [] OTHER -> 0

\* C17: in handling one request the service performs at most one GET of the
\* url, at most one LLM call per generated content type (one for a persona,
\* one for ideas, one per selected channel of a campaign, each with its own
\* prompt) and at most one insert of the result document, whatever failed.
C17_NoRetries ==
    /\ \A r \in slots :
          /\ req[r].gets <= 1
          /\ req[r].gets = 1 => req[r].ep = "/persona"
          /\ Len(req[r].prompts) <= LLMCallsAllowed(req[r])
          /\ Len(req[r].prompts) = 2 => req[r].prompts[1] /= req[r].prompts[2]
          /\ req[r].inserts <= 1
    /\ Inserts("persona") + Inserts("ideas") + Inserts("campaign") + Inserts("test")
          <= received

\* POST /persona has been answered after a failed fetch, one LLM call and
\* one insert that failed: each was attempted once.
C17_Witness ==
    \E r \in slots :
        /\ Answered(r)
        /\ req[r].ep = "/persona"
        /\ req[r].gets = 1 /\ ~req[r].fetch_ok
        /\ Len(req[r].prompts) = 1
        /\ req[r].inserts = 1 /\ req[r].db_failed
        /\ Inserts("persona") = 1
        /\ store.persona = <<>>

\* C18: POST /persona with a url that starts with neither http:// nor
\* https://, or with a blank description, is answered with HTTP 400 straight
\* from the validation: no fetch, no LLM call and no database write is made
\* for it.
C18_InvalidRequestIs400 ==
    \A r \in slots :
        req[r].ep = "/persona" /\ InvalidPersonaRequest(req[r]) /\ req[r].pc /= "validate" =>
            /\ req[r].pc = "done"
            /\ req[r].resp.status = 400
            /\ req[r].gets = 0
            /\ req[r].prompts = <<>>
            /\ req[r].inserts = 0 /\ req[r].doc = NoValue /\ ~req[r].db_failed
            /\ received = 1 => writes = <<>> /\ store = EmptyStore

\* A request with a valid url and a blank description has been answered 400
\* with the validation's message.
C18_Witness ==
    \E r \in slots :
        /\ Answered(r)
        /\ req[r].ep = "/persona"
        /\ startswith(req[r].url, "https://")
        /\ req[r].description = "  "
        /\ req[r].resp.status = 400
        /\ req[r].resp.detail = "Description cannot be empty"
        /\ writes = <<>>

SameProofs(dicts, proofs) ==
    /\ Len(dicts) = Len(proofs)
    /\ \A i \in 1..Len(proofs) :
          /\ dict_get(dicts[i], "statement", None) = PyStr(proofs[i].statement)
          /\ dict_get(dicts[i], "source", NoValue) = proofs[i].source
DocumentOf(doc, persona) ==
    /\ doc.id = persona.id
    /\ doc.title = persona.title
    /\ doc.company = persona.company
    /\ \A i \in 1..Len(StrListFields) :
          doc[StrListFields[i]] = persona[StrListFields[i]]
    /\ SameProofs(doc.social_proof, persona.social_proof)

\* C19: POST /persona has no response while its insert is pending, and a
\* success response returns a persona whose document is in the persona
\* collection, inserted by this request, with the persona's id, title,
\* company and list fields.
C19_SuccessAfterInsert ==
    \A r \in slots :
        req[r].ep = "/persona" =>
            /\ req[r].pc /= "done" => req[r].resp = NoResponse
            /\ req[r].pc = "done" /\ req[r].resp.status = 200 =>
                 /\ req[r].inserts = 1 /\ ~req[r].db_failed
                 /\ \E i \in 1..Len(store.persona) :
                       /\ store.persona[i] = req[r].doc
                       /\ DocumentOf(store.persona[i], req[r].resp.body)

\* A persona with a title, two pain points and one social proof has been
\* returned with success.
C19_Witness ==
    \E r \in slots :
        /\ Answered(r)
        /\ req[r].ep = "/persona"
        /\ req[r].resp.status = 200
        /\ req[r].resp.body.title = PyStr("CTO")
        /\ Len(req[r].resp.body.pain_points) = 2
        /\ Len(req[r].resp.body.social_proof) = 1
        /\ Len(store.persona) = 1

DatabaseErrorPath(resp) == startswith(resp.detail, "Database error:")

\* C20: a database write failure during POST /persona or POST /ideas is
\* answered with HTTP 500 whose detail starts with 'Database error:', and a
\* request of these endpoints whose database write did not fail is neither
\* re-raised by the 'Database error' test nor answered with that detail.
C20_DatabaseErrorIs500 ==
    \A r \in slots :
        Answered(r) /\ req[r].ep \in {"/persona", "/ideas"} =>
            /\ req[r].db_failed =>
                 req[r].resp.status = 500 /\ DatabaseErrorPath(req[r].resp)
            /\ ~req[r].db_failed =>
                 /\ ~DatabaseErrorPath(req[r].resp)
                 /\ req[r].cause = "persona_scraper" => req[r].resp.status = 400

(***************************************************************************)
(* Claims about empty content, the generators' results and the persona's   *)
(* fields.                                                                 *)
(***************************************************************************)
NoMessage(content) ==
    IF content.t = "list" THEN content.l = <<>>
    ELSE \A i \in 1..Len(content.o) : content.o[i].v.l = <<>>

\* C21: a campaign request whose generators produced no message for the
\* requested channel(s), 'useboth' with two empty lists included, is
\* answered with HTTP 500 'Failed to generate any campaign content.' and no
\* campaign document is inserted for it.
C21_NoContentIs500 ==
    \A r \in slots :
        Generated(r) /\ NoMessage(ContentOf(req[r])) =>
            /\ req[r].pc = "done"
            /\ req[r].resp.status = 500
            /\ req[r].resp.detail = "Failed to generate any campaign content."
            /\ req[r].inserts = 0

LacksBody(item) == item.t /= "obj" \/ dict_get(item, "body", NoValue) = NoValue

\* C22: generate_email_content and generate_linkedin_content return either
\* one message for every entry of the reply's 'messages', in order and with
\* the entry's body, or the empty list; when an entry lacks a body the
\* result is the empty list.
C22_AllOrNothing ==
    GenDone /\ h_in.fn /= "generate_ideas" /\ ~raised(h_out) =>
        IF h_in.kind /= "keyed" THEN h_out.v.messages = <<>>
        ELSE LET messages == dict_get(h_in.json, "messages", None)
                 out == h_out.v.messages
             IN  /\ \/ out = <<>>
                    \/ /\ messages.t = "list"
                       /\ Len(out) = Len(messages.l)
                       /\ \A i \in 1..Len(out) :
                             PyStr(out[i].body) = dict_get(messages.l[i], "body", None)
                 /\ messages.t = "list" /\ (\E i \in 1..Len(messages.l) :
                                               LacksBody(messages.l[i])) => out = <<>>

\* The email generator got a reply with one complete message and one entry
\* without a body, and returned the empty list.
C22_Witness ==
    /\ GenDone /\ ~raised(h_out)
    /\ h_in.fn = "generate_email_content"
    /\ h_in.json = Obj1("messages", PyList(<<Msg("s1", "b1"), Obj1("subject", PyStr("s2"))>>))
    /\ h_out.v.messages = <<>>

\* The email generator returned both messages of a reply with two entries.
C22_WitnessAll ==
    /\ GenDone /\ ~raised(h_out)
    /\ h_in.fn = "generate_email_content"
    /\ Len(h_out.v.messages) = 2

Trimmed(val) == val.t = "str" /\ val.s /= "" /\ strip(val.s) = val.s

\* C23: in every persona persona_scraper returns, every element of
\* pain_points, cost_of_inaction, solutions, objections and
\* competitive_advantages is a non-empty string without leading or trailing
\* whitespace, whether the reply gave the field as a string or as a list.
C23_ListElementsTrimmed ==
    ScraperDone /\ ~raised(h_out) =>
        \A f \in AllStrFields :
            \A i \in 1..Len(h_out.v[f]) : Trimmed(h_out.v[f][i])

\* C24: in every persona persona_scraper returns, title and company are
\* each None or a non-empty string without leading or trailing whitespace,
\* whether the reply gave them as a string or as a list.
C24_TitleCompanyTrimmed ==
    ScraperDone /\ ~raised(h_out) =>
        \A f \in {"title", "company"} : h_out.v[f] = None \/ Trimmed(h_out.v[f])

(***************************************************************************)
(* SpecPage: the extraction of persona_scraper (lines 50-72) on one parsed *)
(* page.                                                                   *)
(***************************************************************************)
MaxPageNodes == 2

Heading == El("h1", <<Text("h")>>)
Paragraph == El("p", <<Text(" p ")>>)
Item == El("li", <<Text("l")>>)
Blank == El("p", <<Text(" ")>>)
Other == El("div", <<Text("d")>>)
Leaves == {Heading, Paragraph, Item, Blank, Other}
KidLists ==
    {<<>>, <<Item, Heading>>, <<Blank, Other>>} \cup {<<leaf>> : leaf \in Leaves}
PageNodes ==
    Leaves \cup {El(tag, kids) : tag \in {"main", "div"}, kids \in KidLists}
           \cup {El("section", <<El("article", <<Heading>>)>>),
                 El("li", <<El("p", <<Text("q")>>), Text(" r")>>)}

RECURSIVE Forests(_)
Forests(n) ==
    IF n = 0 THEN {<<>>}
    ELSE Forests(n - 1) \cup
         {Append(f, node) : f \in {g \in Forests(n - 1) : Len(g) = n - 1},
                            node \in PageNodes}

InitPage ==
    /\ ServiceUnused
    /\ h_pc = "ready"
    /\ h_out = NoOut
    /\ \E soup \in Forests(MaxPageNodes) : h_in = [kind |-> "page", soup |-> soup]

CallScrapeContent ==
    /\ h_pc = "ready" /\ h_in.kind = "page"
    /\ h_out' = Ret(scrape_content(h_in.soup))
    /\ h_pc' = "done"
    /\ UNCHANGED <<h_in, svars>>

NextPage == CallScrapeContent

SpecPage == InitPage /\ [][NextPage]_vars

PageDone == h_pc = "done" /\ h_in.kind = "page"
Containers == {"main", "article", "section"}
TextTags == {"h1", "h2", "h3", "p", "li"}
SeqToSet(seq) == {seq[i] : i \in 1..Len(seq)}
Lines(text) == IF text = "" THEN <<>> ELSE split(text, "\n")
TextsWithTag(soup, tags) ==
    SelectSeq(texts_of(SelectSeq(elements(soup), LAMBDA n : n.tag \in tags)),
              LAMBDA t : t /= "")

\* C25: when a main/article/section container of the page holds a non-empty
\* h1/h2/h3/p/li text, every line of the content is the text of such an
\* element inside a container; otherwise the lines are the page's h1-h3
\* texts, then its p texts, then its li texts.  No line is empty.
C25_ScrapePriority ==
    PageDone =>
        LET soup == h_in.soup
            lines == Lines(h_out.v)
            inside == {n \in UNION {SeqToSet(elements(c.kids)) :
                                       c \in {e \in SeqToSet(elements(soup)) :
                                                 e.tag \in Containers}} :
                          n.tag \in TextTags /\ get_text(n) /= ""}
        IN  /\ \A i \in 1..Len(lines) : lines[i] /= ""
            /\ inside /= {} =>
                 \A i \in 1..Len(lines) : \E n \in inside : lines[i] = get_text(n)
            /\ inside = {} =>
                 lines = TextsWithTag(soup, {"h1", "h2", "h3"})
                         \o TextsWithTag(soup, {"p"}) \o TextsWithTag(soup, {"li"})

\* A page with a heading inside main and a paragraph outside it gave the
\* heading only.
C25_Witness ==
    /\ PageDone
    /\ h_in.soup = <<El("main", <<Heading>>), Paragraph>>
    /\ h_out.v = "h"

\* A page without containers gave its texts with the heading first.
C25_WitnessFallback ==
    /\ PageDone
    /\ h_in.soup = <<Item, Heading>>
    /\ h_out.v = "h\nl"

(***************************************************************************)
(* Claims about the database handle in the handlers and at connection.     *)
(***************************************************************************)
ReachedSave(q) == q.pc = "done" /\ q.doc /= NoValue

\* C26: while the database handle is absent nothing is written: no insert
\* is issued and the store stays empty; a request that reached its insert
\* has failed there, and POST /persona and POST /ideas answer it with an
\* error.
C26_NoHandleNoWrite ==
    get_database = "none" =>
        /\ writes = <<>>
        /\ store = EmptyStore
        /\ \A r \in slots :
              /\ req[r].inserts = 0
              /\ req[r].ep \in PersistingEndpoints /\ ReachedSave(req[r]) =>
                    req[r].db_failed
              /\ req[r].ep \in {"/persona", "/ideas"} /\ ReachedSave(req[r]) =>
                    IsError(req[r].resp)

\* Without a handle, POST /ideas has generated two ideas and answered with
\* an error.
C26_Witness ==
    /\ get_database = "none"
    /\ \E r \in slots :
          /\ req[r].ep = "/ideas"
          /\ ReachedSave(req[r])
          /\ Len(req[r].doc.ideas) = 2
          /\ IsError(req[r].resp)
          /\ req[r].db_failed
    /\ store = EmptyStore

InitConc ==
    /\ HarnessUnused
    /\ ServiceNew
    /\ phase = "new"
    /\ settings = SettingsClass \cup {"MONGO_URL", "DATABASE_NAME"}
    /\ exc_str = TRUE
    /\ slots = AllSlots

\* The startup event and the four persisting handlers.
NextConc ==
    \/ startup_db_client
    \/ \E r \in AllSlots :
         \/ ReceivePersona(r)
         \/ PersonaValidate(r)
         \/ PersonaScrape(r)
         \/ PersonaGenerate(r)
         \/ PersonaSave(r)
         \/ ReceiveIdeas(r)
         \/ IdeasRun(r)
         \/ ReceiveCampaign(r)
         \/ CampaignRun(r)
         \/ InsertReturns(r)
         \/ InsertRaises(r)

SpecConc == InitConc /\ [][NextConc]_vars

\* The identifiers generated for the documents of a collection.
StoredIds ==
    [i \in 1..Len(store.persona) |-> store.persona[i].id]
    \o [i \in 1..Len(store.persona) |-> store.persona[i].persona_id]
    \o [i \in 1..Len(store.ideas) |-> store.ideas[i].ideas_id]
    \o [i \in 1..Len(store.campaign) |-> store.campaign[i].details.campaign_id]
Occurrences(docs, doc) == Cardinality({i \in 1..Len(docs) : docs[i] = doc})
\* The request's document and response are made of its own input.
OwnData(q) ==
    CASE q.ep = "/persona" ->
           /\ q.doc.url = q.url /\ q.doc.description = q.description
           /\ q.pc = "done" /\ q.resp.status = 200 => DocumentOf(q.doc, q.resp.body)
      [] q.ep = "/ideas" ->
           /\ q.doc.persona_title = q.persona_in.title
           /\ q.doc.persona_company = q.persona_in.company
           /\ q.pc = "done" /\ q.resp.status = 200 => q.resp.body.ideas = q.doc.ideas
      [] OTHER ->
           /\ q.doc.persona_data.title = q.persona_in.title
           /\ q.doc.details.outreach_channel = q.channel
           /\ q.pc = "done" /\ q.resp.status = 200 =>
                q.resp.body.campaign_details = q.doc.details

\* C28: however the requests interleave, each request issues at most one
\* insert, the identifiers generated for the inserted documents are pairwise
\* distinct, and each request's document and response are made of its own
\* input: a document is stored once, for the request that built it.
C28_RequestsIsolated ==
    /\ \A r \in slots : req[r].inserts <= 1
    /\ Inserts("persona") + Inserts("ideas") + Inserts("campaign") + Inserts("test")
          <= received
    /\ \A i, j \in 1..Len(StoredIds) : i /= j => StoredIds[i] /= StoredIds[j]
    /\ \A r \in slots :
          req[r].ep \in PersistingEndpoints /\ req[r].doc /= NoValue =>
              /\ OwnData(req[r])
              /\ Occurrences(store[collection_of(req[r].ep)], req[r].doc) =
                    (IF req[r].pc = "done" /\ ~req[r].db_failed /\ req[r].inserts = 1
                     THEN 1 ELSE 0)
    /\ \A r1, r2 \in slots :
          r1 /= r2 /\ req[r1].doc /= NoValue /\ req[r2].doc /= NoValue
          /\ req[r1].ep \in PersistingEndpoints /\ req[r2].ep \in PersistingEndpoints =>
              req[r1].doc /= req[r2].doc

\* Two POST /persona requests were in progress together; the one received
\* first had its document inserted second, and both were answered with
\* their own persona.
C28_Witness ==
    \E r1, r2 \in slots :
        /\ r1 /= r2
        /\ Answered(r1) /\ Answered(r2)
        /\ req[r1].ep = "/persona" /\ req[r2].ep = "/persona"
        /\ req[r1].resp.status = 200 /\ req[r2].resp.status = 200
        /\ store.persona = <<req[r2].doc, req[r1].doc>>
        /\ req[r1].doc.persona_id = "uuid-2"
        /\ req[r1].resp.body.id = "uuid-1"

====
